---- MODULE Spec2Model ----
(***************************************************************************)
(* A model of spdlog's size/time rotating file sink                        *)
(* (sinks/daily_rotating_file_sink.h) and of the declarative configuration *)
(* engine (configuration.h, details/configuration_impl.h).                 *)
(*                                                                         *)
(* Time is counted in minutes since local midnight of day 0.  A file on    *)
(* disk is named by the pair <<base, gen>>: base is the date stamp that    *)
(* FileNameCalc bakes into the base filename, gen the numeric suffix that  *)
(* calc_filename appends (0 = no suffix).  A file's content is the         *)
(* sequence of the messages written to it; a message is [id, len], id > 0  *)
(* being the ordinal of the append call that wrote it and id = 0 marking   *)
(* content that was on disk before the sink was constructed.               *)
(***************************************************************************)
EXTENDS Integers, Sequences, FiniteSets, TLC

VARIABLES
    disk,             \* the directory: [existing file names -> content]
    now,              \* std::chrono::system_clock::now(), in minutes
    st,               \* "none" | "open" | "ctor_failed": the sink object
    base,             \* _current_base_filename (its date stamp)
    max_size,         \* _max_size
    max_files,        \* _max_files
    rotation_h,       \* _rotation_h
    rotation_m,       \* _rotation_m
    period,           \* <<_rotation_period_hours, _rotation_period_minutes>>
    current_size,     \* _current_size
    rotation_tp,      \* _rotation_tp
    fh_open,          \* _file_helper holds an open handle
    history,          \* lengths of the messages of all append calls so far
    last,             \* what the latest operation did (observation only)
    obs,              \* running observations: rotations and errors so far
    mt_pc,            \* per thread: its position inside base_sink::log/_sink_it
    mt_owner,         \* the thread that holds base_sink::_mutex (0: nobody)
    mt_tmp,           \* per thread: the value it loaded from _current_size
    mt_sent,          \* per thread: the number of log calls it has completed
    mt_ref,           \* the sink state had the calls run one after the other
    mt_bad,           \* a write reached a closed file handle
    sink_registry,         \* sink_functions::get_sink_registry()
    global_func_registry,  \* global_functions::get_global_func_registry()
    error_handler_registry,\* error_handlers::get_error_handler_registry()
    m_globals,        \* configuration::m_globals
    m_sinks,          \* configuration::m_sinks
    m_loggers,        \* configuration::m_loggers
    directives,       \* [kind, name, config] of the add_* calls made so far, in call order
    conf_pc,          \* "build" | the running phase of configure() | "done" | "failed"
    conf_it,          \* the keys the running phase of configure() has still to visit
    conf_sinks,       \* the local map `sinks` of configure()
    calls,            \* what configure() has invoked so far, in order
    spd,              \* spdlog's global state: logger registry, pattern, error handler
    conf_err,         \* the exception the latest configuration call threw ("none": none)
    warmup_registry,  \* global_functions::get_warmup_registry()
    teardown_registry, \* global_functions::get_teardown_registry()
    sink_messages,    \* [sink id -> the messages the sink was handed, in order]
    logged,           \* the calls of logger::log made so far, in order
    registered,       \* per registry, [name -> the callable of the latest register_* call]
    fn_in,            \* the argument a free function of the library is called with
    fn_out            \* [done, ...]: what that call returned or threw

sinkVars == <<disk, now, st, base, max_size, max_files, rotation_h, rotation_m,
              period, current_size, rotation_tp, fh_open, history, last, obs>>

mtVars == <<mt_pc, mt_owner, mt_tmp, mt_sent, mt_ref, mt_bad>>

confVars == <<sink_registry, global_func_registry, error_handler_registry, m_globals,
              m_sinks, m_loggers, directives, conf_pc, conf_it, conf_sinks, calls, spd,
              conf_err, warmup_registry, teardown_registry, sink_messages, logged,
              registered, fn_in, fn_out>>

vars == <<sinkVars, mtVars, confVars>>

----
\* Bounds of the model.
MaxAppends == 3
MaxInitGen == 2
MaxFailOp == 2
NThreads == 2
MtMsgs == 2

\* Program constants.
SizeMax == 2147483647
MinutesPerHour == 60
HoursPerDay == 24
MaxHour == 23
MaxMinute == 59

MinutesPerDay == HoursPerDay * MinutesPerHour

\* The instants the clock takes in the model, and the constructor arguments.
Times == {0, 90, 1440}
MsgLens == {1, 2}
MaxSizes == {2, 3}
MaxFilesArgs == {0, 1, 2, SizeMax}
\* <<rotation_hour, rotation_minute, <<period_hours, period_minutes>>>>
RotationArgs == { <<0, 0, <<24, 0>>>>, <<0, 30, <<0, 30>>>>,
                  <<-1, 0, <<24, 0>>>>, <<24, 0, <<24, 0>>>>,
                  <<0, -1, <<24, 0>>>>, <<0, 60, <<24, 0>>>> }

Min(a, b) == IF a <= b THEN a ELSE b

OldMsg == [id |-> 0, len |-> 1]

\* details::file_helper::file_exists
file_exists(d, f) == f \in DOMAIN d

\* details::os::remove
os_remove(d, f) == [g \in (DOMAIN d) \ {f} |-> d[g]]

\* details::os::rename (POSIX: an existing target is replaced)
os_rename(d, src, tgt) ==
    [g \in ((DOMAIN d) \ {src}) \cup {tgt} |-> IF g = tgt THEN d[src] ELSE d[g]]

\* details::file_helper::open(fname), append mode: creates the file if missing
fh_open_append(d, f) == IF f \in DOMAIN d THEN d ELSE (f :> <<>>) @@ d

\* details::file_helper::reopen(true): truncates
fh_reopen_truncate(d, f) == [g \in (DOMAIN d) \cup {f} |-> IF g = f THEN <<>> ELSE d[g]]

\* details::file_helper::write
fh_write(d, f, msg) == [d EXCEPT ![f] = Append(@, msg)]

RECURSIVE SumLen(_)
SumLen(s) == IF s = <<>> THEN 0 ELSE s[1].len + SumLen(Tail(s))

\* details::file_helper::size
fh_size(d, f) == SumLen(d[f])

\* FileNameCalc::calc_filename: the date stamp of the current day
DayOf(t) == t \div MinutesPerDay

\* daily_rotating_file_sink::calc_filename(filename, index)
calc_filename(b, index) == <<b, index>>

\* daily_rotating_file_sink::_next_rotation_tp
next_rotation_tp(t, h, m, p) ==
    LET rotation_time == DayOf(t) * MinutesPerDay + h * MinutesPerHour + m
    IN  IF rotation_time > t
        THEN rotation_time
        ELSE rotation_time + p[1] * MinutesPerHour + p[2]

\* _rotate, lines 82-99 enumerating up to _max_files (as far as the model's
\* generations go) whether the target exists or not
RECURSIVE rotate_enum_to_bound(_, _, _, _, _)
rotate_enum_to_bound(d, b, maxf, i, acc) ==
    IF i <= maxf /\ i <= MaxInitGen + MaxAppends
    THEN rotate_enum_to_bound(d, b, maxf, i + 1, Append(acc, <<i, i + 1>>))
    ELSE acc

\* _rotate, lines 82-99: the pending rename list <<src, target>>, enumerated
\* from generation 0 while the target exists and the probe index is within
\* _max_files.
RECURSIVE rotate_enum(_, _, _, _, _)
rotate_enum(d, b, maxf, i, acc) ==
    IF file_exists(d, calc_filename(b, i)) /\ i <= maxf
    THEN rotate_enum(d, b, maxf, i + 1, Append(acc, <<i, i + 1>>))
    ELSE acc

rotate_files(d, b, maxf) == rotate_enum(d, b, maxf, 1, << <<0, 1>> >>)

\* _rotate, line 102: the number of entries of the list that are kept.
rotate_keep_all(n, maxf) == n

rotate_keep(n, maxf) == Min(n, maxf)

\* One filesystem call that succeeded, as the rotation's log records it: n is
\* its ordinal among the rotation's calls, over tells whether a rename found
\* its target existing.
FsCall(n, op, src, tgt, over) ==
    [n |-> n, op |-> op, src |-> src, tgt |-> tgt, over |-> over]

\* _rotate, lines 102-109: remove the source of every entry from position
\* k on.  r = [d, n, err, log, failedAt]: the directory, the number of
\* filesystem calls made, the error thrown, the calls that succeeded, the
\* ordinal of the call that failed.  The failOp-th filesystem call of the
\* rotation fails (0: none does).
RECURSIVE rotate_remove(_, _, _, _, _)
rotate_remove(r, b, files, k, failOp) ==
    IF k > Len(files) \/ r.err # "none" THEN r
    ELSE LET f == calc_filename(b, files[k][1])
         IN  IF r.n + 1 = failOp \/ ~file_exists(r.d, f)
             THEN [r EXCEPT !.n = @ + 1, !.err = "remove", !.failedAt = r.n + 1]
             ELSE rotate_remove(
                     [r EXCEPT !.d = os_remove(@, f), !.n = @ + 1,
                               !.log = Append(@, FsCall(r.n + 1, "remove", files[k][1],
                                                        files[k][1], FALSE))],
                     b, files, k + 1, failOp)

\* _rotate, lines 113-119, with a rename failure that is not thrown: the
\* loop goes on with the next entry.
RECURSIVE rotate_rename_nothrow(_, _, _, _, _)
rotate_rename_nothrow(r, b, files, k, failOp) ==
    IF k = 0 \/ r.err # "none" THEN r
    ELSE LET src == calc_filename(b, files[k][1])
             tgt == calc_filename(b, files[k][2])
         IN  IF ~file_exists(r.d, src)
             THEN rotate_rename_nothrow(r, b, files, k - 1, failOp)
             ELSE IF r.n + 1 = failOp
             THEN rotate_rename_nothrow([r EXCEPT !.n = @ + 1, !.failedAt = r.n + 1],
                                        b, files, k - 1, failOp)
             ELSE rotate_rename_nothrow(
                     [r EXCEPT !.d = os_rename(@, src, tgt), !.n = @ + 1,
                               !.log = Append(@, FsCall(r.n + 1, "rename", files[k][1],
                                                        files[k][2],
                                                        file_exists(r.d, tgt)))],
                     b, files, k - 1, failOp)

\* _rotate, lines 113-119 applied from the lowest entry up: the first entry of
\* the list, then the rest of it.
RECURSIVE rotate_rename_forward(_, _, _, _, _)
rotate_rename_forward(r, b, files, k, failOp) ==
    IF k = 0 \/ r.err # "none" THEN r
    ELSE LET src == calc_filename(b, files[1][1])
             tgt == calc_filename(b, files[1][2])
         IN  IF ~file_exists(r.d, src)
             THEN rotate_rename_forward(r, b, Tail(files), k - 1, failOp)
             ELSE IF r.n + 1 = failOp
             THEN [r EXCEPT !.n = @ + 1, !.err = "rename", !.failedAt = r.n + 1]
             ELSE rotate_rename_forward(
                     [r EXCEPT !.d = os_rename(@, src, tgt), !.n = @ + 1,
                               !.log = Append(@, FsCall(r.n + 1, "rename", files[1][1],
                                                        files[1][2],
                                                        file_exists(r.d, tgt)))],
                     b, Tail(files), k - 1, failOp)

\* _rotate, lines 113-119: apply entries k, k-1, ..., 1 (highest first); an
\* entry whose source does not exist is skipped.
RECURSIVE rotate_rename(_, _, _, _, _)
rotate_rename(r, b, files, k, failOp) ==
    IF k = 0 \/ r.err # "none" THEN r
    ELSE LET src == calc_filename(b, files[k][1])
             tgt == calc_filename(b, files[k][2])
         IN  IF ~file_exists(r.d, src)
             THEN rotate_rename(r, b, files, k - 1, failOp)
             ELSE IF r.n + 1 = failOp
             THEN [r EXCEPT !.n = @ + 1, !.err = "rename", !.failedAt = r.n + 1]
             ELSE rotate_rename(
                     [r EXCEPT !.d = os_rename(@, src, tgt), !.n = @ + 1,
                               !.log = Append(@, FsCall(r.n + 1, "rename", files[k][1],
                                                        files[k][2],
                                                        file_exists(r.d, tgt)))],
                     b, files, k - 1, failOp)

\* daily_rotating_file_sink::_rotate.  The result's open field tells whether
\* _file_helper holds an open handle afterwards (it is closed on entry and
\* reopened, truncated, only when nothing was thrown).
rotate(d, b, maxf, failOp) ==
    LET files == rotate_files(d, b, maxf)
        keep == rotate_keep(Len(files), maxf)
        r0 == [d |-> d, n |-> 0, err |-> "none", log |-> <<>>, failedAt |-> 0]
        r1 == rotate_remove(r0, b, files, keep + 1, failOp)
        r2 == rotate_rename(r1, b, files, keep, failOp)
    IN  [d |-> IF r2.err = "none" THEN fh_reopen_truncate(r2.d, calc_filename(b, 0))
               ELSE r2.d,
         err |-> r2.err, log |-> r2.log, failedAt |-> r2.failedAt,
         open |-> (r2.err = "none"), probes |-> Len(files)]

\* constructor, line 26: the rotation time is rejected
invalid_rotation_time_lax(h, m) == h < 0 \/ h > HoursPerDay \/ m < 0 \/ m > MinutesPerHour

invalid_rotation_time(h, m) == h < 0 \/ h > MaxHour \/ m < 0 \/ m > MaxMinute

\* _sink_it, line 40 with the deadline itself not counted as reached
deadline_reached_after(t, tp) == t > tp

\* _sink_it, line 40: the time deadline is reached
deadline_reached(t, tp) == t >= tp

\* _sink_it, line 47: the size threshold is crossed
size_exceeded_ge(size, maxsz) == size >= maxsz

size_exceeded(size, maxsz) == size > maxsz

\* _sink_it, lines 49-52 without the write that follows the rotation
write_after_rotate_skipped(d, f, msg) == d

\* _sink_it, lines 49-52: after _rotate the message goes to the reopened file
write_after_rotate(d, f, msg) == fh_write(d, f, msg)

\* _sink_it, lines 44 and 50 with the tentative sum left in place
size_after_rotation_kept(size1, L) == size1

\* _sink_it, lines 44 and 50: _current_size = msg.formatted.size()
size_after_rotation(size1, L) == L

\* The sink object's mutable state, as one record.
SinkState(d, b, cs, tp, open) ==
    [disk |-> d, base |-> b, current_size |-> cs, rotation_tp |-> tp, fh_open |-> open]

\* daily_rotating_file_sink::_sink_it as a function: s is the sink's state
\* (SinkState), t the clock, cfg the constructor's arguments, msg the message,
\* failOp the filesystem call of a rotation that fails (0: none).  The result
\* is the new state together with what the call did.
append_result(s, t, cfg, msg, failOp) ==
    LET L == msg.len
        size1 == s.current_size + L
    IN  IF deadline_reached(t, s.rotation_tp)
        THEN LET b == DayOf(t)
                 d == fh_open_append(s.disk, calc_filename(b, 0))
             IN  [disk |-> fh_write(d, calc_filename(b, 0), msg),
                  base |-> b,
                  current_size |-> size_after_rotation(size1, L),
                  rotation_tp |-> next_rotation_tp(t, cfg.h, cfg.m, cfg.p),
                  fh_open |-> TRUE,
                  rotation |-> "time", err |-> "none", log |-> <<>>, failedAt |-> 0,
                  written |-> TRUE]
        ELSE IF size_exceeded(size1, cfg.max_size)
        THEN LET r == rotate(s.disk, s.base, cfg.max_files, failOp)
             IN  [disk |-> IF r.err = "none"
                           THEN write_after_rotate(r.d, calc_filename(s.base, 0), msg)
                           ELSE r.d,
                  base |-> s.base,
                  current_size |-> IF r.err = "none" THEN size_after_rotation(size1, L)
                                   ELSE size1,
                  rotation_tp |-> s.rotation_tp,
                  fh_open |-> r.open,
                  rotation |-> "size", err |-> r.err, log |-> r.log,
                  failedAt |-> r.failedAt, written |-> (r.err = "none")]
        ELSE [disk |-> fh_write(s.disk, calc_filename(s.base, 0), msg),
              base |-> s.base,
              current_size |-> size1,
              rotation_tp |-> s.rotation_tp,
              fh_open |-> s.fh_open,
              rotation |-> "none", err |-> "none", log |-> <<>>, failedAt |-> 0,
              written |-> TRUE]

----
\* The state before the sink is constructed: some log files of an earlier run
\* may exist for the current day's base name.
InitDisks ==
    { [f \in z \cup {<<0, g>> : g \in gs} |-> <<OldMsg>>] :
        gs \in SUBSET (1..MaxInitGen), z \in {{}, {<<0, 0>>}} }

NoCall == [op |-> "none", args |-> <<>>, len |-> 0, rotation |-> "none", err |-> "none",
           log |-> <<>>, failedAt |-> 0, written |-> FALSE]

Cfg == [max_size |-> max_size, max_files |-> max_files, h |-> rotation_h,
        m |-> rotation_m, p |-> period]

InitSink ==
    /\ disk \in InitDisks
    /\ now = 0
    /\ st = "none"
    /\ base = 0
    /\ max_size = 0
    /\ max_files = 0
    /\ rotation_h = 0
    /\ rotation_m = 0
    /\ period = <<0, 0>>
    /\ current_size = 0
    /\ rotation_tp = 0
    /\ fh_open = FALSE
    /\ history = <<>>
    /\ last = NoCall
    /\ obs = [sizeRot |-> 0, timeRot |-> FALSE, ioErr |-> FALSE,
              initGens |-> {f[2] : f \in DOMAIN disk} \ {0}]

\* The threads of the multi-threaded scenario are not running.
MtIdle ==
    /\ mt_pc = <<>>
    /\ mt_owner = 0
    /\ mt_tmp = <<>>
    /\ mt_sent = <<>>
    /\ mt_ref = <<>>
    /\ mt_bad = FALSE

\* No exception.  An exception is [what, args]: the fixed text of its message and
\* the values streamed into it, in order.
NoError == [what |-> "none", args |-> <<>>]

\* The configuration engine is not in use.
NoRegistrations ==
    [sink |-> <<>>, global |-> <<>>, warmup |-> <<>>, teardown |-> <<>>, handler |-> <<>>]

\* No call of a free function has been made.
NotCalled == [done |-> FALSE]

FnIdle == fn_in = <<>> /\ fn_out = NotCalled

ConfIdle ==
    /\ sink_registry = <<>>
    /\ global_func_registry = <<>>
    /\ error_handler_registry = <<>>
    /\ m_globals = <<>>
    /\ m_sinks = <<>>
    /\ m_loggers = <<>>
    /\ directives = <<>>
    /\ conf_pc = "idle"
    /\ conf_it = <<>>
    /\ conf_sinks = <<>>
    /\ calls = <<>>
    /\ spd = <<>>
    /\ conf_err = NoError
    /\ warmup_registry = <<>>
    /\ teardown_registry = <<>>
    /\ sink_messages = <<>>
    /\ logged = <<>>
    /\ registered = NoRegistrations
    /\ FnIdle

Init == InitSink /\ MtIdle /\ ConfIdle

\* The clock advances.
Tick ==
    /\ \E t \in Times : t > now /\ now' = t
    /\ UNCHANGED <<disk, st, base, max_size, max_files, rotation_h, rotation_m,
                   period, current_size, rotation_tp, fh_open, history, last, obs>>
    /\ UNCHANGED <<mtVars, confVars>>

\* daily_rotating_file_sink::daily_rotating_file_sink
Construct(msz, mf, h, m, p) ==
    /\ st = "none"
    /\ IF invalid_rotation_time(h, m)
       THEN /\ st' = "ctor_failed"
            /\ last' = [NoCall EXCEPT !.op = "ctor", !.args = <<h, m>>,
                                      !.err = "invalid rotation time"]
            /\ UNCHANGED <<disk, base, max_size, max_files, rotation_h, rotation_m,
                           period, current_size, rotation_tp, fh_open>>
       ELSE LET b == DayOf(now)
                d == fh_open_append(disk, calc_filename(b, 0))
            IN  /\ st' = "open"
                /\ base' = b
                /\ max_size' = msz
                /\ max_files' = mf
                /\ rotation_h' = h
                /\ rotation_m' = m
                /\ period' = p
                /\ rotation_tp' = next_rotation_tp(now, h, m, p)
                /\ disk' = d
                /\ fh_open' = TRUE
                /\ current_size' = fh_size(d, calc_filename(b, 0))
                /\ last' = [NoCall EXCEPT !.op = "ctor", !.args = <<h, m>>]
    /\ UNCHANGED <<now, history, obs>>
    /\ UNCHANGED <<mtVars, confVars>>

\* daily_rotating_file_sink::_sink_it for a message of length L; failOp is the
\* filesystem call of a rotation that fails (0: none).
sink_it(L, failOp) ==
    /\ st = "open"
    /\ Len(history) < MaxAppends
    /\ LET msg == [id |-> Len(history) + 1, len |-> L]
           r == append_result(SinkState(disk, base, current_size, rotation_tp, fh_open),
                              now, Cfg, msg, failOp)
       IN  /\ history' = Append(history, L)
           /\ disk' = r.disk
           /\ base' = r.base
           /\ current_size' = r.current_size
           /\ rotation_tp' = r.rotation_tp
           /\ fh_open' = r.fh_open
           /\ last' = [op |-> "append", args |-> <<>>, len |-> L, rotation |-> r.rotation,
                       err |-> r.err, log |-> r.log, failedAt |-> r.failedAt,
                       written |-> r.written]
           /\ obs' = [obs EXCEPT !.sizeRot = IF r.rotation = "size" /\ r.err = "none"
                                             THEN @ + 1 ELSE @,
                                 !.timeRot = @ \/ r.rotation = "time",
                                 !.ioErr = @ \/ r.failedAt # 0]
    /\ UNCHANGED <<now, st, max_size, max_files, rotation_h, rotation_m, period>>
    /\ UNCHANGED <<mtVars, confVars>>

Next ==
    \/ Tick
    \/ \E msz \in MaxSizes, mf \in MaxFilesArgs, a \in RotationArgs :
          Construct(msz, mf, a[1], a[2], a[3])
    \/ \E L \in MsgLens, failOp \in 0..MaxFailOp : sink_it(L, failOp)

Spec == Init /\ [][Next]_vars

----
\* Observations the claims are stated with.

\* The generation numbers of the backup files of base name b.
Backups(d, b) == {f[2] : f \in {g \in DOMAIN d : g[1] = b}} \ {0}

SetMax(S) == CHOOSE x \in S : \A y \in S : y <= x

\* The content of the files b.k, ..., b.1, b read in that order.
RECURSIVE ReadChain(_, _, _)
ReadChain(d, b, k) ==
    IF k < 0 THEN <<>>
    ELSE (IF <<b, k>> \in DOMAIN d THEN d[<<b, k>>] ELSE <<>>) \o ReadChain(d, b, k - 1)

IsAppended(msg) == msg.id > 0

\* The messages of every append call so far, in call order.
Appended == [i \in 1..Len(history) |-> [id |-> i, len |-> history[i]]]

\* Message id occurs in some file of the directory.
OnDisk(d, id) == \E f \in DOMAIN d : \E i \in 1..Len(d[f]) : d[f][i].id = id

\* The step is a call of _sink_it.
AppendStep == st = "open" /\ history' # history

\* C1: for a sink with max_files >= 1 whose deadline is not reached, an append
\* of a message of length L shifts the generations if and only if
\* current_size + L > max_size (equality does not rotate); when it does, and
\* no filesystem call fails, there is exactly one shift before the write:
\* afterwards generation 1 holds the content generation 0 had before the
\* append and generation 0 holds the triggering message alone.
C1_ShiftIffSizeExceeded ==
    [][ (AppendStep /\ max_files >= 1 /\ now < rotation_tp) =>
          LET L == last'.len
              msg == [id |-> Len(history'), len |-> L]
              f0 == <<base, 0>>
              f1 == <<base, 1>>
              shifted == /\ f1 \in DOMAIN disk'
                         /\ disk'[f1] = disk[f0]
                         /\ disk'[f0] = <<msg>>
          IN  /\ (last'.rotation = "size") <=> (current_size + L > max_size)
              /\ last'.failedAt = 0 =>
                    IF current_size + L > max_size
                    THEN /\ shifted
                         /\ Cardinality({i \in DOMAIN last'.log :
                                last'.log[i].op = "rename" /\ last'.log[i].src = 0}) = 1
                    ELSE /\ disk' = [disk EXCEPT ![f0] = Append(@, msg)]
                         /\ last'.log = <<>>
      ]_vars

C1_Witness ==
    /\ last.op = "append" /\ last.rotation = "size" /\ last.err = "none"
    /\ max_files >= 1
    /\ <<base, 1>> \in DOMAIN disk /\ Len(disk[<<base, 1>>]) = 2
    /\ current_size = max_size

\* C2: starting without backup files, after n size-triggered rotations (no
\* time rotation, no I/O error) the backup files are exactly
\* path.1 .. path.min(n, max_files) beside the active file, and no rename
\* ever creates a path.N with N > max_files; for every max_files >= 0.
C2_RetentionBound ==
    (st = "open" /\ obs.initGens = {} /\ ~obs.timeRot /\ ~obs.ioErr) =>
        /\ Backups(disk, base) = 1..Min(obs.sizeRot, max_files)
        /\ <<base, 0>> \in DOMAIN disk
        /\ \A i \in DOMAIN last.log : last.log[i].tgt <= max_files

C2_Witness ==
    /\ st = "open" /\ obs.initGens = {} /\ ~obs.timeRot /\ ~obs.ioErr
    /\ obs.sizeRot = 3 /\ max_files = 2
    /\ Backups(disk, base) = {1, 2}

\* C3: with only size-triggered rotations and no I/O error, the files read in
\* the order path.max_files, ..., path.1, path hold a contiguous suffix of the
\* append history, each message once and unaltered, older generations first,
\* ending with the message appended last.
C3_ContiguousSuffix ==
    (st = "open" /\ ~obs.timeRot /\ ~obs.ioErr) =>
        LET top == Min(max_files, SetMax(Backups(disk, base) \cup {0}))
            all == ReadChain(disk, base, top)
            new == SelectSeq(all, IsAppended)
            n == Len(history)
        IN  /\ new = SubSeq(Appended, n - Len(new) + 1, n)
            /\ \A i \in 1..Len(all) - 1 : all[i].id <= all[i + 1].id
            /\ n > 0 => /\ disk[<<base, 0>>] # <<>>
                        /\ disk[<<base, 0>>][Len(disk[<<base, 0>>])] = Appended[n]

C3_Witness ==
    /\ st = "open" /\ ~obs.timeRot /\ ~obs.ioErr
    /\ max_files = 1 /\ obs.sizeRot = 2 /\ Len(history) = 3
    /\ ~OnDisk(disk, 1) /\ OnDisk(disk, 2) /\ OnDisk(disk, 3)

\* C4: the deadline computed by the constructor and by each time-based
\* rotation is strictly later than the moment it is computed.
C4_DeadlineInFuture ==
    [][ ((st = "none" /\ st' = "open") \/ (AppendStep /\ last'.rotation = "time"))
            => rotation_tp' > now' ]_vars

\* C5: after a size-triggered rotation no backup file path.N with
\* N > max_files remains.
C5_ExcessGenerationsDeleted ==
    (last.op = "append" /\ last.rotation = "size" /\ last.err = "none") =>
        \A g \in Backups(disk, base) : g <= max_files

\* C7: when a removal or a rename fails during a generation shift, the append
\* fails with that error, no filesystem call of the shift follows the failed
\* one, and the triggering message is in no file.
C7_RotationFailureIsFatal ==
    (last.op = "append" /\ last.failedAt # 0) =>
        /\ last.err \in {"remove", "rename"}
        /\ ~last.written
        /\ ~OnDisk(disk, Len(history))
        /\ \A i \in DOMAIN last.log : last.log[i].n < last.failedAt

C7_Witness ==
    /\ last.op = "append" /\ last.failedAt = 2 /\ last.err = "rename"
    /\ Len(last.log) = 1 /\ last.log[1].op = "rename"
    /\ <<base, 0>> \in DOMAIN disk

\* C8: constructing the sink with rotation_hour outside 0..23 or
\* rotation_minute outside 0..59 fails with the invalid-rotation-time error and
\* touches no file; with valid values the generation-0 file is opened and
\* current_size is that file's size on disk.
C8_CtorValidatesRotationTime ==
    [][ (st = "none" /\ st' # "none") =>
          LET h == last'.args[1]
              m == last'.args[2]
              f0 == <<now \div (24 * 60), 0>>
          IN  IF h \notin 0..23 \/ m \notin 0..59
              THEN /\ st' = "ctor_failed"
                   /\ last'.err = "invalid rotation time"
                   /\ disk' = disk
                   /\ ~fh_open'
              ELSE /\ st' = "open"
                   /\ fh_open'
                   /\ f0 \in DOMAIN disk'
                   /\ \A f \in DOMAIN disk : disk'[f] = disk[f]
                   /\ current_size' = IF f0 \in DOMAIN disk THEN SumLen(disk[f0]) ELSE 0
      ]_vars

C8_Witness == st = "ctor_failed" /\ last.args = <<24, 0>> /\ <<0, 0>> \notin DOMAIN disk

----
\* Several threads log to one sink.  base_sink<Mutex>::log takes _mutex and
\* calls _sink_it; the statements of _sink_it are separate steps here, so that
\* the threads interleave wherever the mutex lets them.

Threads == 1..NThreads

\* daily_rotating_file_sink_mt, line 158: the Mutex the sink is instantiated with
SinkMutexNull == "null_mutex"

SinkMutex == "mutex"

\* The k-th message of thread t.
MtMsg(t, k) == [id |-> 10 * t + k, len |-> 1 + ((t + k) % 2)]

MtCur(t) == MtMsg(t, mt_sent[t] + 1)

MtInitDisks == { <<>>, (<<0, 0>> :> <<OldMsg>>), (<<0, 0>> :> <<OldMsg>>) @@ (<<0, 1>> :> <<OldMsg>>) }

\* A sink constructed at time 0 with rotation time 00:30 and a period of 24
\* hours; the threads log either before the deadline or after it.
InitMt ==
    /\ \E d0 \in MtInitDisks :
          /\ disk = fh_open_append(d0, calc_filename(0, 0))
          /\ obs = [sizeRot |-> 0, timeRot |-> FALSE, ioErr |-> FALSE,
                    initGens |-> {f[2] : f \in DOMAIN d0} \ {0}]
    /\ now \in {0, 90}
    /\ st = "open"
    /\ base = 0
    /\ max_size \in MaxSizes
    /\ max_files \in {1, SizeMax}
    /\ rotation_h = 0
    /\ rotation_m = 30
    /\ period = <<24, 0>>
    /\ current_size = fh_size(disk, calc_filename(0, 0))
    /\ rotation_tp = next_rotation_tp(0, 0, 30, <<24, 0>>)
    /\ fh_open = TRUE
    /\ history = <<>>
    /\ last = NoCall
    /\ mt_pc = [t \in Threads |-> "idle"]
    /\ mt_owner = 0
    /\ mt_tmp = [t \in Threads |-> 0]
    /\ mt_sent = [t \in Threads |-> 0]
    /\ mt_ref = SinkState(disk, base, current_size, rotation_tp, fh_open)
    /\ mt_bad = FALSE
    /\ ConfIdle

MtFrame == UNCHANGED <<now, st, max_size, max_files, rotation_h, rotation_m, period,
                       history, last, obs, confVars>>

\* base_sink<Mutex>::log: std::lock_guard<Mutex> lock(_mutex).  With
\* details::null_mutex the lock is a no-op.  mt_ref follows the calls in the
\* order in which they enter.
mt_lock(t) ==
    /\ mt_pc[t] = "idle"
    /\ mt_sent[t] < MtMsgs
    /\ SinkMutex = "mutex" => mt_owner = 0
    /\ mt_owner' = IF SinkMutex = "mutex" THEN t ELSE mt_owner
    /\ mt_pc' = [mt_pc EXCEPT ![t] = "load"]
    /\ LET r == append_result(mt_ref, now, Cfg, MtCur(t), 0)
       IN  mt_ref' = SinkState(r.disk, r.base, r.current_size, r.rotation_tp, r.fh_open)
    /\ UNCHANGED <<disk, base, current_size, rotation_tp, fh_open, mt_tmp, mt_sent, mt_bad>>
    /\ MtFrame

\* _sink_it, line 38: _current_size is loaded ...
mt_load(t) ==
    /\ mt_pc[t] = "load"
    /\ mt_tmp' = [mt_tmp EXCEPT ![t] = current_size]
    /\ mt_pc' = [mt_pc EXCEPT ![t] = "add"]
    /\ UNCHANGED <<disk, base, current_size, rotation_tp, fh_open, mt_owner, mt_sent,
                   mt_ref, mt_bad>>
    /\ MtFrame

\* ... and stored back, increased by the message's size.
mt_add(t) ==
    /\ mt_pc[t] = "add"
    /\ current_size' = mt_tmp[t] + MtCur(t).len
    /\ mt_pc' = [mt_pc EXCEPT ![t] = "test"]
    /\ UNCHANGED <<disk, base, rotation_tp, fh_open, mt_owner, mt_tmp, mt_sent,
                   mt_ref, mt_bad>>
    /\ MtFrame

\* _sink_it, lines 40-47: the two tests.  The time branch (lines 42-44)
\* reopens the file and recomputes the deadline.
mt_test(t) ==
    /\ mt_pc[t] = "test"
    /\ IF deadline_reached(now, rotation_tp)
       THEN /\ base' = DayOf(now)
            /\ disk' = fh_open_append(disk, calc_filename(DayOf(now), 0))
            /\ fh_open' = TRUE
            /\ rotation_tp' = next_rotation_tp(now, rotation_h, rotation_m, period)
            /\ mt_pc' = [mt_pc EXCEPT ![t] = "reset"]
       ELSE /\ mt_pc' = [mt_pc EXCEPT ![t] =
                            IF size_exceeded(current_size, max_size) THEN "close"
                            ELSE "write"]
            /\ UNCHANGED <<disk, base, fh_open, rotation_tp>>
    /\ UNCHANGED <<current_size, mt_owner, mt_tmp, mt_sent, mt_ref, mt_bad>>
    /\ MtFrame

\* _rotate, line 80: _file_helper.close()
mt_close(t) ==
    /\ mt_pc[t] = "close"
    /\ fh_open' = FALSE
    /\ mt_pc' = [mt_pc EXCEPT ![t] = "shift"]
    /\ UNCHANGED <<disk, base, current_size, rotation_tp, mt_owner, mt_tmp, mt_sent,
                   mt_ref, mt_bad>>
    /\ MtFrame

\* _rotate, lines 82-121: the removals, the renames and reopen(true)
mt_shift(t) ==
    /\ mt_pc[t] = "shift"
    /\ LET r == rotate(disk, base, max_files, 0)
       IN  /\ disk' = r.d
           /\ fh_open' = r.open
    /\ mt_pc' = [mt_pc EXCEPT ![t] = "reset"]
    /\ UNCHANGED <<base, current_size, rotation_tp, mt_owner, mt_tmp, mt_sent,
                   mt_ref, mt_bad>>
    /\ MtFrame

\* _sink_it, lines 45 and 50: _current_size = msg.formatted.size()
mt_reset(t) ==
    /\ mt_pc[t] = "reset"
    /\ current_size' = MtCur(t).len
    /\ mt_pc' = [mt_pc EXCEPT ![t] = "write"]
    /\ UNCHANGED <<disk, base, rotation_tp, fh_open, mt_owner, mt_tmp, mt_sent,
                   mt_ref, mt_bad>>
    /\ MtFrame

\* _sink_it, line 52: _file_helper.write(msg).  Writing through a closed
\* handle is undefined: the message may or may not reach the file.
mt_write(t) ==
    /\ mt_pc[t] = "write"
    /\ IF fh_open
       THEN /\ disk' = fh_write(disk, calc_filename(base, 0), MtCur(t))
            /\ UNCHANGED mt_bad
       ELSE /\ mt_bad' = TRUE
            /\ \/ disk' = disk
               \/ /\ file_exists(disk, calc_filename(base, 0))
                  /\ disk' = fh_write(disk, calc_filename(base, 0), MtCur(t))
    /\ mt_pc' = [mt_pc EXCEPT ![t] = "unlock"]
    /\ UNCHANGED <<base, current_size, rotation_tp, fh_open, mt_owner, mt_tmp, mt_sent,
                   mt_ref>>
    /\ MtFrame

\* base_sink<Mutex>::log returns: the lock_guard releases _mutex.
mt_unlock(t) ==
    /\ mt_pc[t] = "unlock"
    /\ mt_owner' = IF mt_owner = t THEN 0 ELSE mt_owner
    /\ mt_sent' = [mt_sent EXCEPT ![t] = @ + 1]
    /\ mt_pc' = [mt_pc EXCEPT ![t] = "idle"]
    /\ UNCHANGED <<disk, base, current_size, rotation_tp, fh_open, mt_tmp, mt_ref, mt_bad>>
    /\ MtFrame

NextMt ==
    \E t \in Threads :
        \/ mt_lock(t)
        \/ mt_load(t)
        \/ mt_add(t)
        \/ mt_test(t)
        \/ mt_close(t)
        \/ mt_shift(t)
        \/ mt_reset(t)
        \/ mt_write(t)
        \/ mt_unlock(t)

SpecMt == InitMt /\ [][NextMt]_vars

MtQuiescent == \A t \in Threads : mt_pc[t] = "idle"

\* C6: with the mutex-locked sink, in every interleaving of concurrent
\* appends each append runs as one critical section: at most one thread is
\* inside _sink_it, no write reaches a closed handle, and whenever no append
\* is in progress current_size, the deadline, the file chain and the file
\* contents are those of the appends run one after the other (in the order
\* in which they took the lock).
C6_AppendsAreSerialized ==
    /\ Cardinality({t \in Threads : mt_pc[t] # "idle"}) <= 1
    /\ ~mt_bad
    /\ MtQuiescent =>
          SinkState(disk, base, current_size, rotation_tp, fh_open) = mt_ref

C6_Witness ==
    /\ MtQuiescent
    /\ \A t \in Threads : mt_sent[t] = MtMsgs
    /\ \E i \in 1..Len(disk[<<base, 0>>]) : disk[<<base, 0>>][i].id = 12
    /\ <<base, 1>> \in DOMAIN disk
    /\ \E i \in 1..Len(disk[<<base, 1>>]) : disk[<<base, 1>>][i].id = 21

----
\* Strings of the configuration engine are sequences of characters.

\* std::string::npos
npos == -1

\* The characters of the model in the order of their codes (operator< on char).
CharOrder ==
    << " ", "\"", "%", "+", ",", "-", ".", "0", "1", "2", "3", "4", "5", "6", "7", "8", "9", ":", "=",
       "A", "B", "C", "D", "E", "F", "G", "H", "I", "J", "K", "L", "M", "N", "O", "P",
       "Q", "R", "S", "T", "U", "V", "W", "X", "Y", "Z", "[", "]", "_", "a", "b", "c",
       "d", "e", "f", "g", "h", "i", "j", "k", "l", "m", "n", "o", "p", "q", "r", "s",
       "t", "u", "v", "w", "x", "y", "z" >>

Ord(c) == CHOOSE i \in 1..Len(CharOrder) : CharOrder[i] = c

\* std::less<std::string>, the order of the keys of a std::map
RECURSIVE StrLess(_, _)
StrLess(a, b) ==
    IF b = <<>> THEN FALSE
    ELSE IF a = <<>> THEN TRUE
    ELSE IF a[1] # b[1] THEN Ord(a[1]) < Ord(b[1])
    ELSE StrLess(Tail(a), Tail(b))

\* The keys of a std::map in iteration order.
RECURSIVE SortedKeys(_)
SortedKeys(S) ==
    IF S = {} THEN <<>>
    ELSE LET k == CHOOSE x \in S : \A y \in S \ {x} : StrLess(x, y)
         IN  <<k>> \o SortedKeys(S \ {k})

\* F applied to the value of v, which is computed once.
Let(v, F(_)) == CHOOSE y \in {F(x) : x \in {v}} : TRUE

\* std::map::emplace / std::map::insert: an existing key keeps its value
map_emplace(mp, k, v) == IF k \in DOMAIN mp THEN mp ELSE (k :> v) @@ mp

\* std::map::emplace in the place of the assignment through operator[]
map_assign_keep(mp, k, v) == IF k \in DOMAIN mp THEN mp ELSE (k :> v) @@ mp

\* std::map::operator[] followed by an assignment
map_assign(mp, k, v) == (k :> v) @@ mp

\* std::string::substr(pos, count) with 0-based pos; a count that is negative
\* stands for the huge unsigned value the subtraction wraps to.
substr(str, pos, count) ==
    LET n == Len(str)
        e == IF count < 0 \/ pos + count > n THEN n ELSE pos + count
    IN  SubSeq(str, pos + 1, e)

\* std::string::find_first_of(delims, from): 0-based index or npos
RECURSIVE find_first_of(_, _, _)
find_first_of(str, delims, from) ==
    IF from >= Len(str) THEN npos
    ELSE IF str[from + 1] \in delims THEN from
    ELSE find_first_of(str, delims, from + 1)

\* std::string::rfind(c): 0-based index of the last occurrence or npos
RECURSIVE rfind_from(_, _, _)
rfind_from(str, c, i) ==
    IF i = 0 THEN npos
    ELSE IF str[i] = c THEN i - 1
    ELSE rfind_from(str, c, i - 1)

rfind(str, c) == rfind_from(str, c, Len(str))

\* utilities::tokenize, lines 323-340: the loop.  r = <<result, pos, last_, count>>
RECURSIVE tokenize_loop(_, _, _, _, _, _, _)
tokenize_loop(input, delims, max, result, pos, last_, count) ==
    IF (pos # npos \/ last_ # npos) /\ count < max
    THEN LET tok == substr(input, last_, IF pos = npos THEN -1 ELSE pos - last_)
         IN  IF pos # npos
             THEN tokenize_loop(input, delims, max, Append(result, tok),
                                find_first_of(input, delims, pos + 1), pos + 1, count + 1)
             ELSE tokenize_loop(input, delims, max, Append(result, tok),
                                pos, npos, count + 1)
    ELSE IF last_ # npos
    THEN Append(result, substr(input, last_, -1))
    ELSE result

\* utilities::tokenize with the last token dropped
tokenize_drop_last(input, delims, max) ==
    IF input = <<>> THEN <<>>
    ELSE LET r == tokenize_loop(input, delims, max, <<>>,
                                find_first_of(input, delims, 0), 0, 0)
         IN  SubSeq(r, 1, Len(r) - 1)

\* utilities::tokenize(input, delimiters, max)
tokenize(input, delims, max) ==
    IF input = <<>> THEN <<>>
    ELSE tokenize_loop(input, delims, max, <<>>, find_first_of(input, delims, 0), 0, 0)

\* utilities::parse_csv, lines 225-290: the loop over the characters.  i is the
\* 0-based position of current; the result is
\* [err, result, token, i, count] (the state when the loop ends).
RECURSIVE parse_csv_loop(_, _, _, _, _, _, _)
parse_csv_loop(csv, max, i, in_quote, token, count, result) ==
    IF ~(i < Len(csv) /\ count < max)
    THEN [err |-> FALSE, result |-> result, token |-> token, i |-> i, count |-> count]
    ELSE LET c == csv[i + 1]
         IN  IF c = "\""
             THEN IF in_quote
                  THEN IF i + 1 < Len(csv)
                       THEN IF csv[i + 2] = "\""
                            THEN parse_csv_loop(csv, max, i + 2, in_quote,
                                                Append(token, "\""), count, result)
                            ELSE IF csv[i + 2] = ","
                            THEN parse_csv_loop(csv, max, i + 1, FALSE, token, count, result)
                            ELSE [err |-> TRUE, result |-> result, token |-> token, i |-> i,
                                  count |-> count]
                       ELSE parse_csv_loop(csv, max, i + 1, in_quote, <<>>, count + 1,
                                           Append(result, token))
                  ELSE parse_csv_loop(csv, max, i + 1, TRUE, token, count, result)
             ELSE IF c = ","
             THEN IF in_quote
                  THEN parse_csv_loop(csv, max, i + 1, in_quote, Append(token, c),
                                      count, result)
                  ELSE parse_csv_loop(csv, max, i + 1, in_quote, <<>>, count + 1,
                                      Append(result, token))
             ELSE parse_csv_loop(csv, max, i + 1, in_quote, Append(token, c), count, result)

\* utilities::parse_csv cutting at every comma, quoted or not
parse_csv_naive(csv, max) ==
    [err |-> FALSE, args |-> <<csv>>, result |-> tokenize(csv, {","}, max)]

\* utilities::parse_csv(csv, max): [err, result]
parse_csv(csv, max) ==
    Let(parse_csv_loop(csv, max, 0, FALSE, <<>>, 0, <<>>), LAMBDA r :
        LET r1 == IF r.token # <<>> THEN Append(r.result, r.token) ELSE r.result
            r2 == IF r.i # Len(csv) /\ r.count < SizeMax
                  THEN Append(r1, substr(csv, r.i, -1)) ELSE r1
        IN  [err |-> r.err, args |-> <<csv>>, result |-> IF r.err THEN <<>> ELSE r2])

----
\* The string literals of configuration_impl.h.
S_stdout_sink_st == <<"s", "t", "d", "o", "u", "t", "_", "s", "i", "n", "k", "_", "s", "t">>
S_stdout_sink_mt == <<"s", "t", "d", "o", "u", "t", "_", "s", "i", "n", "k", "_", "m", "t">>
S_stderr_sink_st == <<"s", "t", "d", "e", "r", "r", "_", "s", "i", "n", "k", "_", "s", "t">>
S_stderr_sink_mt == <<"s", "t", "d", "e", "r", "r", "_", "s", "i", "n", "k", "_", "m", "t">>
S_null_sink_st == <<"n", "u", "l", "l", "_", "s", "i", "n", "k", "_", "s", "t">>
S_null_sink_mt == <<"n", "u", "l", "l", "_", "s", "i", "n", "k", "_", "m", "t">>
S_simple_file_sink_st == <<"s", "i", "m", "p", "l", "e", "_", "f", "i", "l", "e", "_", "s", "i", "n", "k", "_", "s", "t">>
S_simple_file_sink_mt == <<"s", "i", "m", "p", "l", "e", "_", "f", "i", "l", "e", "_", "s", "i", "n", "k", "_", "m", "t">>
S_daily_rotating_file_sink_st == <<"d", "a", "i", "l", "y", "_", "r", "o", "t", "a", "t", "i", "n", "g", "_", "f", "i", "l", "e", "_", "s", "i", "n", "k", "_", "s", "t">>
S_daily_rotating_file_sink_mt == <<"d", "a", "i", "l", "y", "_", "r", "o", "t", "a", "t", "i", "n", "g", "_", "f", "i", "l", "e", "_", "s", "i", "n", "k", "_", "m", "t">>
S_periodically_rotating_file_sink_st == <<"p", "e", "r", "i", "o", "d", "i", "c", "a", "l", "l", "y", "_", "r", "o", "t", "a", "t", "i", "n", "g", "_", "f", "i", "l", "e", "_", "s", "i", "n", "k", "_", "s", "t">>
S_periodically_rotating_file_sink_mt == <<"p", "e", "r", "i", "o", "d", "i", "c", "a", "l", "l", "y", "_", "r", "o", "t", "a", "t", "i", "n", "g", "_", "f", "i", "l", "e", "_", "s", "i", "n", "k", "_", "m", "t">>
S_stdout_color_sink_st == <<"s", "t", "d", "o", "u", "t", "_", "c", "o", "l", "o", "r", "_", "s", "i", "n", "k", "_", "s", "t">>
S_stdout_color_sink_mt == <<"s", "t", "d", "o", "u", "t", "_", "c", "o", "l", "o", "r", "_", "s", "i", "n", "k", "_", "m", "t">>
S_stderr_color_sink_st == <<"s", "t", "d", "e", "r", "r", "_", "c", "o", "l", "o", "r", "_", "s", "i", "n", "k", "_", "s", "t">>
S_stderr_color_sink_mt == <<"s", "t", "d", "e", "r", "r", "_", "c", "o", "l", "o", "r", "_", "s", "i", "n", "k", "_", "m", "t">>
S_set_async == <<"s", "e", "t", "_", "a", "s", "y", "n", "c">>
S_set_pattern == <<"s", "e", "t", "_", "p", "a", "t", "t", "e", "r", "n">>
S_set_error_handler == <<"s", "e", "t", "_", "e", "r", "r", "o", "r", "_", "h", "a", "n", "d", "l", "e", "r">>
S_sinks == <<"s", "i", "n", "k", "s">>
S_pattern == <<"p", "a", "t", "t", "e", "r", "n">>
S_file_path == <<"f", "i", "l", "e", "_", "p", "a", "t", "h">>
S_truncate == <<"t", "r", "u", "n", "c", "a", "t", "e">>
S_TRACE == <<"T", "R", "A", "C", "E">>
S_DEBUG == <<"D", "E", "B", "U", "G">>
S_INFO == <<"I", "N", "F", "O">>
S_WARNINGS == <<"W", "A", "R", "N", "I", "N", "G", "S">>
S_ERROR == <<"E", "R", "R", "O", "R">>
S_FATAL == <<"F", "A", "T", "A", "L">>
S_OFF == <<"O", "F", "F">>

\* sink_functions::make_sink_registry, in the build without _WIN32,
\* SPDLOG_ENABLE_SYSLOG, __ANDROID__ and _MSC_VER.  A sink function is named by
\* the function template and the Mutex it is instantiated with.
make_sink_registry ==
    (S_stdout_sink_st :> [func |-> "make_stdout_sink", mutex |-> "null_mutex"])
    @@ (S_stdout_sink_mt :> [func |-> "make_stdout_sink", mutex |-> "mutex"])
    @@ (S_stderr_sink_st :> [func |-> "make_stdout_sink", mutex |-> "null_mutex"])
    @@ (S_stderr_sink_mt :> [func |-> "make_stdout_sink", mutex |-> "mutex"])
    @@ (S_null_sink_st :> [func |-> "make_null_sink", mutex |-> "null_mutex"])
    @@ (S_null_sink_mt :> [func |-> "make_null_sink", mutex |-> "mutex"])
    @@ (S_simple_file_sink_st :> [func |-> "make_simple_file_sink", mutex |-> "null_mutex"])
    @@ (S_simple_file_sink_mt :> [func |-> "make_simple_file_sink", mutex |-> "mutex"])
    @@ (S_daily_rotating_file_sink_st :> [func |-> "make_daily_rotating_file_sink", mutex |-> "null_mutex"])
    @@ (S_daily_rotating_file_sink_mt :> [func |-> "make_daily_rotating_file_sink", mutex |-> "mutex"])
    @@ (S_periodically_rotating_file_sink_st :> [func |-> "make_periodically_rotating_file_sink", mutex |-> "null_mutex"])
    @@ (S_periodically_rotating_file_sink_mt :> [func |-> "make_periodically_rotating_file_sink", mutex |-> "mutex"])
    @@ (S_stdout_color_sink_st :> [func |-> "make_ansicolor_stdout_sink", mutex |-> "null_mutex"])
    @@ (S_stdout_color_sink_mt :> [func |-> "make_ansicolor_stdout_sink", mutex |-> "mutex"])
    @@ (S_stderr_color_sink_st :> [func |-> "make_ansicolor_stderr_sink", mutex |-> "null_mutex"])
    @@ (S_stderr_color_sink_mt :> [func |-> "make_ansicolor_stderr_sink", mutex |-> "mutex"])

\* error_handlers::make_error_handler_registry
make_error_handler_registry == <<>>

\* global_functions::make_warmup_registry
make_warmup_registry == <<>>

\* global_functions::make_teardown_registry
make_teardown_registry == <<>>

\* global_functions::make_global_func_registry
make_global_func_registry ==
    (S_set_async :> "global_func_set_async")
    @@ (S_set_pattern :> "global_func_set_pattern")
    @@ (S_set_error_handler :> "global_func_set_error_handler")

\* utilities::ItemMap with the name of spdlog's warn level for WARNINGS
ItemMap_warn ==
    << <<S_TRACE, "trace">>, <<S_DEBUG, "debug">>, <<S_INFO, "info">>,
       <<<<"W", "A", "R", "N">>, "warn">>, <<S_ERROR, "err">>, <<S_FATAL, "critical">>,
       <<S_OFF, "off">> >>

\* utilities::ItemMap
ItemMap == << <<S_TRACE, "trace">>, <<S_DEBUG, "debug">>, <<S_INFO, "info">>,
              <<S_WARNINGS, "warn">>, <<S_ERROR, "err">>, <<S_FATAL, "critical">>,
              <<S_OFF, "off">> >>

\* utilities::find_log_level(key, range)
RECURSIVE find_log_level_from(_, _)
find_log_level_from(key, range) ==
    IF range = 0 THEN "info"
    ELSE IF ItemMap[range][1] = key THEN ItemMap[range][2]
    ELSE find_log_level_from(key, range - 1)

find_log_level(key) == find_log_level_from(key, Len(ItemMap))

\* attributes::get_attribute<std::string>: [err, value]
get_attribute(name, attributes) ==
    IF name \in DOMAIN attributes
    THEN [err |-> "none", args |-> <<>>, value |-> attributes[name]]
    ELSE [err |-> "Attribute is required but cannot be found", args |-> <<name>>,
          value |-> <<>>]

\* attributes::get_attribute_default<std::string>
get_attribute_default(name, attributes, def) ==
    LET r == get_attribute(name, attributes)
    IN  IF r.err # "none" THEN def ELSE r.value

\* The typed attribute accessors.

LowerCase ==
    <<"a", "b", "c", "d", "e", "f", "g", "h", "i", "j", "k", "l", "m",
      "n", "o", "p", "q", "r", "s", "t", "u", "v", "w", "x", "y", "z">>

UpperCase ==
    <<"A", "B", "C", "D", "E", "F", "G", "H", "I", "J", "K", "L", "M",
      "N", "O", "P", "Q", "R", "S", "T", "U", "V", "W", "X", "Y", "Z">>

\* A converted attribute: a string (text), a bool (b) or a number (the sign and
\* the decimal digits of the magnitude, without leading zeros)
Val(b, neg, text) == [b |-> b, neg |-> neg, text |-> text]

Digits == {"0", "1", "2", "3", "4", "5", "6", "7", "8", "9"}
S_INT_MAX == <<"2", "1", "4", "7", "4", "8", "3", "6", "4", "7">>
S_INT_MIN == <<"2", "1", "4", "7", "4", "8", "3", "6", "4", "8">>
S_ULONG_MAX == <<"1", "8", "4", "4", "6", "7", "4", "4", "0", "7", "3", "7", "0", "9", "5",
                 "5", "1", "6", "1", "5">>

\* tolower(c)
tolower(c) ==
    IF \E k \in DOMAIN UpperCase : UpperCase[k] = c
    THEN LowerCase[CHOOSE k \in DOMAIN UpperCase : UpperCase[k] = c]
    ELSE c

\* utilities::caseless_less_than: std::lexicographical_compare on tolower
RECURSIVE caseless_less_than(_, _)
caseless_less_than(s1, s2) ==
    IF s2 = <<>> THEN FALSE
    ELSE IF s1 = <<>> THEN TRUE
    ELSE IF Ord(tolower(s1[1])) < Ord(tolower(s2[1])) THEN TRUE
    ELSE IF Ord(tolower(s2[1])) < Ord(tolower(s1[1])) THEN FALSE
    ELSE caseless_less_than(Tail(s1), Tail(s2))

\* std::set<std::string, caseless_less_than>::count
caseless_count(set, key) ==
    IF \E e \in set : ~caseless_less_than(e, key) /\ ~caseless_less_than(key, e)
    THEN 1 ELSE 0

TRUE_SET == {<<"1">>, <<"T", "r", "u", "e">>, <<"T">>, <<"Y", "e", "s">>, <<"Y">>}
FALSE_SET == {<<"0">>, <<"F", "a", "l", "s", "e">>, <<"F">>, <<"N", "o">>, <<"N">>}

\* The characters of str from position i (from 1) on that std::isspace skips
RECURSIVE skip_space(_, _)
skip_space(str, i) ==
    IF i <= Len(str) /\ str[i] = " " THEN skip_space(str, i + 1) ELSE i

\* The decimal digits of str from position i on
RECURSIVE take_digits(_, _)
take_digits(str, i) ==
    IF i <= Len(str) /\ str[i] \in Digits THEN <<str[i]>> \o take_digits(str, i + 1)
    ELSE <<>>

RECURSIVE strip_zeros(_)
strip_zeros(d) == IF Len(d) > 1 /\ d[1] = "0" THEN strip_zeros(Tail(d)) ELSE d

\* a < b for decimal numbers written without leading zeros
DecLess(a, b) == Len(a) < Len(b) \/ (Len(a) = Len(b) /\ StrLess(a, b))

\* strtol / strtoul in base 10: white space, an optional sign, digits; what
\* follows the digits is left unread.  [digits, neg, mag]
strto(str) ==
    Let(skip_space(str, 1), LAMBDA i :
        LET signed == i <= Len(str) /\ str[i] \in {"+", "-"}
            d == take_digits(str, IF signed THEN i + 1 ELSE i)
        IN  [digits |-> d # <<>>, neg |-> signed /\ str[i] = "-", mag |-> strip_zeros(d)])

\* std::stoi: [err, value]
stoi(str) ==
    Let(strto(str), LAMBDA n :
        IF ~n.digits THEN [err |-> "invalid_argument", value |-> Val(FALSE, FALSE, <<>>)]
        ELSE IF DecLess(IF n.neg THEN S_INT_MIN ELSE S_INT_MAX, n.mag)
        THEN [err |-> "out_of_range", value |-> Val(FALSE, FALSE, <<>>)]
        ELSE [err |-> "none", value |-> Val(FALSE, n.neg /\ n.mag # <<"0">>, n.mag)])

\* std::stoul: a negative number is taken modulo 2^64   [err, value]
stoul(str) ==
    Let(strto(str), LAMBDA n :
        IF ~n.digits THEN [err |-> "invalid_argument", value |-> Val(FALSE, FALSE, <<>>)]
        ELSE IF DecLess(S_ULONG_MAX, n.mag)
        THEN [err |-> "out_of_range", value |-> Val(FALSE, FALSE, <<>>)]
        ELSE [err |-> "none", value |-> Val(FALSE, n.neg /\ n.mag # <<"0">>, n.mag)])

\* attributes::get_attribute<T>: [err, args, value]
get_attribute_as(T, name, attributes) ==
    Let(get_attribute(name, attributes), LAMBDA attribute :
        IF attribute.err # "none"
        THEN [err |-> attribute.err, args |-> attribute.args, value |-> Val(FALSE, FALSE, <<>>)]
        ELSE CASE T = "string" ->
                    [err |-> "none", args |-> <<>>, value |-> Val(FALSE, FALSE, attribute.value)]
               [] T = "bool" ->
                    IF caseless_count(TRUE_SET, attribute.value) = 1
                    THEN [err |-> "none", args |-> <<>>, value |-> Val(TRUE, FALSE, <<>>)]
                    ELSE IF caseless_count(FALSE_SET, attribute.value) = 1
                    THEN [err |-> "none", args |-> <<>>, value |-> Val(FALSE, FALSE, <<>>)]
                    ELSE [err |-> "Attribute is not a valid boolean", args |-> <<name>>,
                          value |-> Val(FALSE, FALSE, <<>>)]
               [] T = "int" ->
                    Let(stoi(attribute.value), LAMBDA n :
                        IF n.err = "invalid_argument"
                        THEN [err |-> "Attribute is not a valid integer", args |-> <<name>>,
                              value |-> n.value]
                        ELSE [err |-> n.err, args |-> <<>>, value |-> n.value])
               [] T = "size_t" ->
                    Let(stoul(attribute.value), LAMBDA n :
                        IF n.err = "invalid_argument"
                        THEN [err |-> "Attribute is not a valid size_t", args |-> <<name>>,
                              value |-> n.value]
                        ELSE [err |-> n.err, args |-> <<>>, value |-> n.value]))

\* attributes::get_attribute_default<T>: catch (...) { return def; }
get_attribute_default_as(T, name, attributes, def) ==
    Let(get_attribute_as(T, name, attributes), LAMBDA r :
        IF r.err # "none" THEN [err |-> "none", args |-> <<>>, value |-> def] ELSE r)

\* config_line::parse, lines 995-1001: the lambda that cuts the attribute list out
\* of the second csv token.  start + 1 and end - start - 1 are computed in
\* size_t; substr takes a negative count as the wrapped-around value.
attribute_tokens(token) ==
    Let(find_first_of(token, {"["}, 0), LAMBDA start :
        parse_csv(substr(token, start + 1, rfind(token, "]") - start - 1), SizeMax))

\* config_line::parse, lines 1003-1012: the loop over the attribute tokens
RECURSIVE parse_attributes(_, _)
parse_attributes(tokens, attributes) ==
    IF tokens = <<>> THEN [err |-> FALSE, at |-> <<>>, attributes |-> attributes]
    ELSE LET kv == tokenize(Head(tokens), {"="}, SizeMax)
         IN  IF Len(kv) # 2
             THEN [err |-> TRUE, at |-> Head(tokens), attributes |-> attributes]
             ELSE parse_attributes(Tail(tokens), map_emplace(attributes, kv[1], kv[2]))

config_line_failed(what, args) ==
    [err |-> what, args |-> args, value |-> <<>>, attributes |-> <<>>]

\* config_line::parse with the csv parser left to cut at every comma
config_line_tokens_uncapped(config) == parse_csv(config, SizeMax)

\* config_line::parse, line 978: du::parse_csv(config, 1)
config_line_tokens(config) == parse_csv(config, 1)

\* configuration::config_line::parse: [err, value, attributes]
config_line_parse(config) ==
    Let(config_line_tokens(config), LAMBDA tokens :
        IF tokens.err
        THEN config_line_failed("Malformed string passed to csv parser", <<config>>)
        ELSE IF tokens.result = <<>> THEN config_line_failed("Empty config line found", <<>>)
        ELSE IF Len(tokens.result) > 2 THEN config_line_failed("Invalid config line found", <<>>)
        ELSE IF Len(tokens.result) = 2
        THEN Let(attribute_tokens(tokens.result[Len(tokens.result)]), LAMBDA at :
                 IF at.err
                 THEN config_line_failed("Malformed string passed to csv parser", at.args)
                 ELSE Let(parse_attributes(at.result, <<>>), LAMBDA a :
                          IF a.err
                          THEN config_line_failed("Invalid attribute definition found", <<a.at>>)
                          ELSE [err |-> "none", args |-> <<>>,
                                value |-> tokens.result[1],
                                attributes |-> a.attributes]))
        ELSE [err |-> "none", args |-> <<>>, value |-> tokens.result[1],
              attributes |-> <<>>])

\* configuration::global_config::global_config(const std::string&): [err, cfg]
global_config(config) ==
    Let(config_line_parse(config), LAMBDA line :
        [err |-> line.err, args |-> line.args,
         cfg |-> [value |-> line.value, attributes |-> line.attributes]])

\* configuration::sink_config::sink_config(const std::string&): [err, cfg]
sink_config(config) ==
    Let(config_line_parse(config), LAMBDA line :
        [err |-> line.err, args |-> line.args,
         cfg |-> [type |-> line.value, attributes |-> line.attributes]])

\* configuration::logger_config::logger_config(const std::string&): [err, cfg]
logger_config(config) ==
    Let(config_line_parse(config), LAMBDA line :
        LET attribute == get_attribute(S_sinks, line.attributes)
        IN  IF line.err # "none"
            THEN [err |-> line.err, args |-> line.args, cfg |-> <<>>]
            ELSE IF attribute.err # "none"
            THEN [err |-> attribute.err, args |-> attribute.args, cfg |-> <<>>]
            ELSE [err |-> "none", args |-> <<>>,
                  cfg |-> [threshold |-> line.value,
                           sinks |-> tokenize(attribute.value, {":"}, SizeMax),
                           attributes |-> line.attributes]])


----
\* The configuration engine: directives are added to a configuration object,
\* then configure() consumes them.

MaxDirectives == 3

\* The sink function of the tests' custom sink (register_custom_sink).
custom_sink_function == [func |-> "custom", mutex |-> "mutex"]

S_custom == <<"c", "u", "s", "t", "o", "m">>

S_handler == <<"h", "a", "n", "d", "l", "e", "r">>

\* (name, config string) of the global directives that are added
GlobalDirectives ==
    { <<S_set_pattern, <<"%", "v">>>>,
      <<S_set_error_handler, S_handler>>,
      <<<<"z", "z">>, <<"x">>>> }

\* (name, config string) of the sink directives that are added
SinkDirectives ==
    { <<n, c>> : n \in {<<"a">>, <<"b">>},
                 c \in {S_null_sink_st, S_stdout_sink_st, <<"n", "o", "p", "e">>} }

\* (name, config string) of the logger directives that are added
LoggerDirectives ==
    { <<n, c>> : n \in {<<"l">>, <<"m">>},
                 c \in {<<"I", "N", "F", "O", ",", "[", "s", "i", "n", "k", "s", "=", "a", "]">>, <<"I", "N", "F", "O", ",", "[", "s", "i", "n", "k", "s", "=", "b", ":", "a", ":", "b", "]">>,
                        <<"O", "F", "F", ",", "[", "s", "i", "n", "k", "s", "=", "a", ":", "z", ",", "p", "a", "t", "t", "e", "r", "n", "=", "%", "v", "]">>, <<"I", "N", "F", "O">>,
                        <<"I", "N", "F", "O", ",", "[", "s", "i", "n", "k", "s", "=", "a", ",", "s", "e", "t", "_", "e", "r", "r", "o", "r", "_", "h", "a", "n", "d", "l", "e", "r", "=", "h", "a", "n", "d", "l", "e", "r", "]">>} }

\* The pattern of spdlog's registry before any set_pattern
default_pattern == <<"%", "+">>

\* The engine before any directive is added.  The registries are process-wide
\* statics; the logger registry of spdlog is empty.

LibraryStart ==
    /\ disk = <<>>
    /\ now = 0
    /\ st = "none"
    /\ base = 0
    /\ max_size = 0
    /\ max_files = 0
    /\ rotation_h = 0
    /\ rotation_m = 0
    /\ period = <<0, 0>>
    /\ current_size = 0
    /\ rotation_tp = 0
    /\ fh_open = FALSE
    /\ history = <<>>
    /\ last = NoCall
    /\ obs = [sizeRot |-> 0, timeRot |-> FALSE, ioErr |-> FALSE, initGens |-> {}]
    /\ sink_registry = make_sink_registry
    /\ global_func_registry = make_global_func_registry
    /\ error_handler_registry = make_error_handler_registry
    /\ m_globals = <<>>
    /\ m_sinks = <<>>
    /\ m_loggers = <<>>
    /\ directives = <<>>
    /\ conf_pc = "build"
    /\ conf_it = <<>>
    /\ conf_sinks = <<>>
    /\ calls = <<>>
    /\ spd = [loggers |-> <<>>, pattern |-> default_pattern, error_handler |-> "default",
              async |-> [on |-> FALSE], workers |-> <<>>]
    /\ conf_err = NoError
    /\ warmup_registry = make_warmup_registry
    /\ teardown_registry = make_teardown_registry
    /\ sink_messages = <<>>
    /\ logged = <<>>
    /\ registered = NoRegistrations

ConfStart == LibraryStart /\ MtIdle

InitConf == ConfStart /\ FnIdle

ConfFrame ==
    UNCHANGED <<sinkVars, mtVars, warmup_registry, teardown_registry, sink_messages, logged,
                registered, fn_in, fn_out>>

\* What a register_* call leaves alone besides the registries
RegFrame ==
    UNCHANGED <<sinkVars, mtVars, m_globals, m_sinks, m_loggers, directives, conf_pc,
                conf_it, conf_sinks, calls, spd, conf_err, sink_messages, logged,
                fn_in, fn_out>>

\* configuration::register_custom_global_function
register_custom_global_function(name, func) ==
    /\ conf_pc = "build"
    /\ global_func_registry' = map_assign(global_func_registry, name, func)
    /\ registered' = [registered EXCEPT !.global = (name :> func) @@ @]
    /\ UNCHANGED <<sink_registry, warmup_registry, teardown_registry, error_handler_registry>>
    /\ RegFrame

\* configuration::register_custom_sink
register_custom_sink(name, func) ==
    /\ conf_pc = "build"
    /\ sink_registry' = map_assign(sink_registry, name, func)
    /\ registered' = [registered EXCEPT !.sink = (name :> func) @@ @]
    /\ UNCHANGED <<global_func_registry, warmup_registry, teardown_registry, error_handler_registry>>
    /\ RegFrame

\* configuration::register_worker_warmup
register_worker_warmup(name, func) ==
    /\ conf_pc = "build"
    /\ warmup_registry' = map_assign(warmup_registry, name, func)
    /\ registered' = [registered EXCEPT !.warmup = (name :> func) @@ @]
    /\ UNCHANGED <<global_func_registry, sink_registry, teardown_registry, error_handler_registry>>
    /\ RegFrame

\* configuration::register_worker_teardown
register_worker_teardown(name, func) ==
    /\ conf_pc = "build"
    /\ teardown_registry' = map_assign(teardown_registry, name, func)
    /\ registered' = [registered EXCEPT !.teardown = (name :> func) @@ @]
    /\ UNCHANGED <<global_func_registry, sink_registry, warmup_registry, error_handler_registry>>
    /\ RegFrame

\* configuration::register_error_handler
register_error_handler(name, func) ==
    /\ conf_pc = "build"
    /\ error_handler_registry' = map_assign(error_handler_registry, name, func)
    /\ registered' = [registered EXCEPT !.handler = (name :> func) @@ @]
    /\ UNCHANGED <<global_func_registry, sink_registry, warmup_registry, teardown_registry>>
    /\ RegFrame

\* configuration::add_global(name, global_config{config})
add_global(name, config) ==
    /\ conf_pc = "build"
    /\ Len(directives) < MaxDirectives
    /\ \E g \in {global_config(config)} :
           IF g.err # "none"
           THEN /\ conf_err' = [what |-> g.err, args |-> g.args]
                /\ UNCHANGED <<m_globals, directives>>
           ELSE /\ m_globals' = map_emplace(m_globals, name, g.cfg)
                /\ directives' = Append(directives, [kind |-> "global", name |-> name, config |-> config])
                /\ conf_err' = NoError
    /\ UNCHANGED <<sink_registry, global_func_registry, error_handler_registry, m_sinks,
                   m_loggers, conf_pc, conf_it, conf_sinks, calls, spd>>
    /\ ConfFrame

\* configuration::add_sink(name, sink_config{config})
add_sink(name, config) ==
    /\ conf_pc = "build"
    /\ Len(directives) < MaxDirectives
    /\ \E s \in {sink_config(config)} :
           IF s.err # "none"
           THEN /\ conf_err' = [what |-> s.err, args |-> s.args]
                /\ UNCHANGED <<m_sinks, directives>>
           ELSE /\ m_sinks' = map_emplace(m_sinks, name, s.cfg)
                /\ directives' = Append(directives, [kind |-> "sink", name |-> name, config |-> config])
                /\ conf_err' = NoError
    /\ UNCHANGED <<sink_registry, global_func_registry, error_handler_registry, m_globals,
                   m_loggers, conf_pc, conf_it, conf_sinks, calls, spd>>
    /\ ConfFrame

\* configuration::add_logger(name, logger_config{config})
add_logger(name, config) ==
    /\ conf_pc = "build"
    /\ Len(directives) < MaxDirectives
    /\ \E l \in {logger_config(config)} :
           IF l.err # "none"
           THEN /\ conf_err' = [what |-> l.err, args |-> l.args]
                /\ UNCHANGED <<m_loggers, directives>>
           ELSE /\ m_loggers' = map_emplace(m_loggers, name, l.cfg)
                /\ directives' = Append(directives, [kind |-> "logger", name |-> name, config |-> config])
                /\ conf_err' = NoError
    /\ UNCHANGED <<sink_registry, global_func_registry, error_handler_registry, m_globals,
                   m_sinks, conf_pc, conf_it, conf_sinks, calls, spd>>
    /\ ConfFrame

\* configuration::configure with the sinks constructed first
configure_phases_sinks_first == <<"sinks", "globals", "loggers">>

\* configuration::configure: the three loops, in program order
configure_phases == <<"globals", "sinks", "loggers">>

\* The keys a loop of configure() visits: a std::map iterates in key order.
phase_keys(ph) ==
    SortedKeys(DOMAIN (CASE ph = "globals" -> m_globals
                         [] ph = "sinks" -> m_sinks
                         [] ph = "loggers" -> m_loggers))

\* Control reaches the k-th loop of configure(): a loop over an empty map is
\* passed through; after the last loop configure() returns.
RECURSIVE enter_phase(_)
enter_phase(k) ==
    IF k > Len(configure_phases) THEN [pc |-> "done", it |-> <<>>]
    ELSE IF phase_keys(configure_phases[k]) = <<>> THEN enter_phase(k + 1)
    ELSE [pc |-> configure_phases[k], it |-> phase_keys(configure_phases[k])]

\* Control after one iteration of the running loop.
next_iteration ==
    IF Tail(conf_it) # <<>> THEN [pc |-> conf_pc, it |-> Tail(conf_it)]
    ELSE enter_phase(1 + CHOOSE k \in 1..Len(configure_phases) :
                                configure_phases[k] = conf_pc)

\* configuration::configure is entered.
configure ==
    /\ conf_pc = "build"
    /\ \E n \in {enter_phase(1)} : conf_pc' = n.pc /\ conf_it' = n.it
    /\ conf_sinks' = <<>>
    /\ calls' = <<>>
    /\ conf_err' = NoError
    /\ UNCHANGED <<sink_registry, global_func_registry, error_handler_registry, m_globals,
                   m_sinks, m_loggers, directives, spd>>
    /\ ConfFrame

\* A get_worker_warmup_cb that finds no callback
get_worker_warmup_cb_null(name) == "nullptr"

\* global_functions::get_worker_warmup_cb
get_worker_warmup_cb(name) ==
    IF name \notin DOMAIN warmup_registry THEN "nullptr" ELSE warmup_registry[name]

\* global_functions::get_worker_teardown_cb
get_worker_teardown_cb(name) ==
    IF name \notin DOMAIN teardown_registry THEN "nullptr" ELSE teardown_registry[name]

S_overflow_policy == <<"o", "v", "e", "r", "f", "l", "o", "w", "_", "p", "o", "l", "i", "c", "y">>
S_worker_warmup_cb == <<"w", "o", "r", "k", "e", "r", "_", "w", "a", "r", "m", "u", "p", "_", "c", "b">>
S_worker_teardown_cb == <<"w", "o", "r", "k", "e", "r", "_", "t", "e", "a", "r", "d", "o", "w", "n", "_", "c", "b">>
S_flush_interval_ms == <<"f", "l", "u", "s", "h", "_", "i", "n", "t", "e", "r", "v", "a", "l", "_", "m", "s">>
S_block_retry == <<"b", "l", "o", "c", "k", "_", "r", "e", "t", "r", "y">>
S_discard_log_msg == <<"d", "i", "s", "c", "a", "r", "d", "_", "l", "o", "g", "_", "m", "s", "g">>

\* global_functions::make_overflow_policy_registry
make_overflow_policy_registry ==
    (S_block_retry :> "block_retry") @@ (S_discard_log_msg :> "discard_log_msg")

\* spdlog::set_async_mode: the loggers created from now on are asynchronous
set_async_mode(s, queue_size, overflow_policy, warmup_cb, flush_interval_ms, teardown_cb) ==
    [s EXCEPT !.async = [on |-> TRUE, queue_size |-> queue_size,
                         overflow_policy |-> overflow_policy,
                         worker_warmup |-> warmup_cb,
                         flush_interval_ms |-> flush_interval_ms,
                         worker_teardown |-> teardown_cb]]

\* global_functions::global_func_set_async: [err, args, spd].  An attribute
\* that is absent or empty takes its default.
global_func_set_async(config, s) ==
    Let(stoul(config.value), LAMBDA queue_size :
    Let(get_attribute_default(S_overflow_policy, config.attributes, <<>>), LAMBDA policy :
    Let(get_attribute_default(S_worker_warmup_cb, config.attributes, <<>>), LAMBDA warmup :
    Let(get_attribute_default(S_flush_interval_ms, config.attributes, <<>>), LAMBDA flush :
    Let(get_attribute_default(S_worker_teardown_cb, config.attributes, <<>>), LAMBDA teardown :
        IF queue_size.err # "none"
        THEN [err |-> queue_size.err, args |-> <<>>, spd |-> s]
        ELSE IF policy # <<>> /\ policy \notin DOMAIN make_overflow_policy_registry
        THEN [err |-> "Cannot find overflow_policy matching", args |-> <<policy>>, spd |-> s]
        ELSE IF flush # <<>> /\ stoul(flush).err # "none"
        THEN [err |-> stoul(flush).err, args |-> <<>>, spd |-> s]
        ELSE [err |-> "none", args |-> <<>>,
              spd |-> set_async_mode(s, queue_size.value,
                         IF policy = <<>> THEN "block_retry"
                         ELSE make_overflow_policy_registry[policy],
                         IF warmup = <<>> THEN "nullptr" ELSE get_worker_warmup_cb(warmup),
                         IF flush = <<>> THEN Val(FALSE, FALSE, <<"0">>) ELSE stoul(flush).value,
                         IF teardown = <<>> THEN "nullptr"
                         ELSE get_worker_teardown_cb(teardown))])))))

\* The registered global functions with a set_error_handler that finds the
\* handler and installs nothing
global_function_call_unset(func, config, s) ==
    CASE func = "global_func_set_pattern" ->
            [err |-> "none", args |-> <<>>, spd |-> [s EXCEPT !.pattern = config.value]]
      [] func = "global_func_set_error_handler" ->
            IF config.value \in DOMAIN error_handler_registry
            THEN [err |-> "none", args |-> <<>>, spd |-> s]
            ELSE [err |-> "Cannot find error handler", args |-> <<config.value>>,
                  spd |-> s]

\* The body of a registered global function: [err, spd]
global_function_call(func, config, s) ==
    CASE func = "global_func_set_async" -> global_func_set_async(config, s)
      [] func = "global_func_set_pattern" ->
            [err |-> "none", args |-> <<>>, spd |-> [s EXCEPT !.pattern = config.value]]
      [] func = "global_func_set_error_handler" ->
            IF config.value \in DOMAIN error_handler_registry
            THEN [err |-> "none", args |-> <<>>,
                  spd |-> [s EXCEPT !.error_handler = error_handler_registry[config.value]]]
            ELSE [err |-> "Cannot find error handler", args |-> <<config.value>>,
                  spd |-> s]

\* global_functions::call_global_func treating an unregistered name as an error
call_global_func_strict(name, config, s) ==
    IF name \notin DOMAIN global_func_registry
    THEN [called |-> FALSE, err |-> "Cannot find global function", args |-> <<name>>,
          spd |-> s]
    ELSE Let(global_function_call(global_func_registry[name], config, s), LAMBDA r :
             [called |-> TRUE, err |-> r.err, args |-> r.args, spd |-> r.spd])

\* global_functions::call_global_func: [called, err, args, spd]
call_global_func(name, config, s) ==
    IF name \notin DOMAIN global_func_registry
    THEN [called |-> FALSE, err |-> "none", args |-> <<>>, spd |-> s]
    ELSE Let(global_function_call(global_func_registry[name], config, s), LAMBDA r :
             [called |-> TRUE, err |-> r.err, args |-> r.args, spd |-> r.spd])

\* configuration::configure, lines 929-932: one iteration of the loop over m_globals
configure_global ==
    /\ conf_pc = "globals"
    /\ \E name \in {Head(conf_it)} :
       \E r \in {call_global_func(name, m_globals[name], spd)}, n \in {next_iteration} :
           /\ calls' = IF r.called
                       THEN Append(calls, [kind |-> "global", name |-> name, inst |-> <<>>])
                       ELSE calls
           /\ spd' = r.spd
           /\ IF r.err # "none"
              THEN /\ conf_pc' = "failed" /\ conf_it' = <<>>
                   /\ conf_err' = [what |-> r.err, args |-> r.args]
              ELSE /\ conf_pc' = n.pc
                   /\ conf_it' = n.it
                   /\ UNCHANGED conf_err
    /\ UNCHANGED <<sink_registry, global_func_registry, error_handler_registry, m_globals,
                   m_sinks, m_loggers, directives, conf_sinks>>
    /\ ConfFrame

S_max_size == <<"m", "a", "x", "_", "s", "i", "z", "e">>

\* make_periodically_rotating_file_sink and make_daily_rotating_file_sink,
\* lines 538-539 and 553-554: the two attributes that are required, read in
\* this order; the attributes read after them have defaults and never throw.
rotating_file_sink_attributes(config) ==
    Let(get_attribute(S_file_path, config.attributes), LAMBDA path :
        IF path.err # "none"
        THEN [err |-> path.err, args |-> <<S_file_path>>]
        ELSE Let(get_attribute_as("size_t", S_max_size, config.attributes),
                 LAMBDA size : [err |-> size.err, args |-> size.args]))

\* The body of a registered sink function; id numbers the objects that
\* std::make_shared creates, instance() returns the one object of its class:
\* [err, inst]
sink_function_call(f, config, id) ==
    CASE f.func = "make_stdout_sink" ->
            [err |-> "none", args |-> <<>>, inst |-> [class |-> "stdout_sink", mutex |-> f.mutex, id |-> 0]]
      [] f.func = "make_stderr_sink" ->
            [err |-> "none", args |-> <<>>, inst |-> [class |-> "stderr_sink", mutex |-> f.mutex, id |-> 0]]
      [] f.func = "make_ansicolor_stdout_sink" ->
            [err |-> "none", args |-> <<>>,
             inst |-> [class |-> "ansicolor_stdout_sink", mutex |-> f.mutex, id |-> id]]
      [] f.func = "make_ansicolor_stderr_sink" ->
            [err |-> "none", args |-> <<>>,
             inst |-> [class |-> "ansicolor_stderr_sink", mutex |-> f.mutex, id |-> id]]
      [] f.func = "make_null_sink" ->
            [err |-> "none", args |-> <<>>, inst |-> [class |-> "null_sink", mutex |-> f.mutex, id |-> id]]
      [] f.func = "make_simple_file_sink" ->
            IF get_attribute(S_file_path, config.attributes).err # "none"
            THEN [err |-> get_attribute(S_file_path, config.attributes).err,
                  args |-> <<S_file_path>>, inst |-> <<>>]
            ELSE [err |-> "none", args |-> <<>>,
                  inst |-> [class |-> "simple_file_sink", mutex |-> f.mutex, id |-> id]]
      [] f.func = "make_periodically_rotating_file_sink" ->
            Let(rotating_file_sink_attributes(config), LAMBDA a :
                IF a.err # "none" THEN [err |-> a.err, args |-> a.args, inst |-> <<>>]
                ELSE [err |-> "none", args |-> <<>>,
                      inst |-> [class |-> "daily_rotating_file_sink<default_daily_file_name_calculator>",
                                mutex |-> f.mutex, id |-> id]])
      [] f.func = "make_daily_rotating_file_sink" ->
            Let(rotating_file_sink_attributes(config), LAMBDA a :
                IF a.err # "none" THEN [err |-> a.err, args |-> a.args, inst |-> <<>>]
                ELSE [err |-> "none", args |-> <<>>,
                      inst |-> [class |-> "daily_rotating_file_sink<dateonly_daily_file_name_calculator>",
                                mutex |-> f.mutex, id |-> id]])
      [] f.func = "custom" ->
            [err |-> "none", args |-> <<>>, inst |-> [class |-> "custom", mutex |-> f.mutex, id |-> id]]
      [] f.func = "throwing" ->
            [err |-> "none", args |-> <<>>,
             inst |-> [class |-> "throwing_sink", mutex |-> f.mutex, id |-> id]]

\* sink_functions::make_sink: [called, err, inst]
make_sink(config, id) ==
    IF config.type \notin DOMAIN sink_registry
    THEN [called |-> FALSE, err |-> "Cannot create sink of type",
          args |-> <<config.type>>, inst |-> <<>>]
    ELSE Let(sink_function_call(sink_registry[config.type], config, id), LAMBDA r :
             [called |-> TRUE, err |-> r.err, args |-> r.args, inst |-> r.inst])

\* configuration::configure, lines 938-941: one iteration of the loop over m_sinks
configure_sink ==
    /\ conf_pc = "sinks"
    /\ \E name \in {Head(conf_it)} :
       \E r \in {make_sink(m_sinks[name], 1 + Cardinality({i \in DOMAIN calls :
                                                            calls[i].kind = "sink"}))},
          n \in {next_iteration} :
           /\ calls' = IF r.called
                       THEN Append(calls, [kind |-> "sink", name |-> name, inst |-> r.inst])
                       ELSE calls
           /\ IF r.err # "none"
              THEN /\ conf_pc' = "failed" /\ conf_it' = <<>>
                   /\ conf_err' = [what |-> r.err, args |-> r.args]
                   /\ UNCHANGED conf_sinks
              ELSE /\ conf_sinks' = map_emplace(conf_sinks, name, r.inst)
                   /\ conf_pc' = n.pc
                   /\ conf_it' = n.it
                   /\ UNCHANGED conf_err
    /\ UNCHANGED <<sink_registry, global_func_registry, error_handler_registry, m_globals,
                   m_sinks, m_loggers, directives, spd>>
    /\ ConfFrame

\* make_logger, lines 816-830, passing over the names that are not found
RECURSIVE logger_sinks_skip_missing(_, _, _)
logger_sinks_skip_missing(names, sinks, result) ==
    IF names = <<>> THEN [err |-> "none", n |-> <<>>, result |-> result]
    ELSE logger_sinks_skip_missing(Tail(names), sinks,
                                   IF Head(names) \in DOMAIN sinks
                                   THEN Append(result, sinks[Head(names)]) ELSE result)

\* make_logger, lines 816-830, resolving each name once
RECURSIVE logger_sinks_unique(_, _, _)
logger_sinks_unique(names, sinks, result) ==
    IF names = <<>> THEN [err |-> "none", n |-> <<>>, result |-> result]
    ELSE IF Head(names) \notin DOMAIN sinks
    THEN [err |-> "Trying to construct logger, but cannot find sink",
          n |-> Head(names), result |-> <<>>]
    ELSE logger_sinks_unique(Tail(names), sinks,
                             IF \E i \in DOMAIN result : result[i] = sinks[Head(names)]
                             THEN result ELSE Append(result, sinks[Head(names)]))

\* make_logger, lines 816-830, handing the logger an object of its own for
\* each name instead of the object configure() has made
RECURSIVE logger_sinks_fresh(_, _, _)
logger_sinks_fresh(names, sinks, result) ==
    IF names = <<>> THEN [err |-> "none", n |-> <<>>, result |-> result]
    ELSE IF Head(names) \notin DOMAIN sinks
    THEN [err |-> "Trying to construct logger, but cannot find sink",
          n |-> Head(names), result |-> <<>>]
    ELSE logger_sinks_fresh(Tail(names), sinks,
                            Append(result, [sinks[Head(names)] EXCEPT
                                               !.id = @ + Len(result) + MaxDirectives]))

\* make_logger, lines 816-830: the lambda that resolves the sink names of the
\* logger against the sinks configure() has made: [err, result]
RECURSIVE logger_sinks(_, _, _)
logger_sinks(names, sinks, result) ==
    IF names = <<>> THEN [err |-> "none", n |-> <<>>, result |-> result]
    ELSE IF Head(names) \notin DOMAIN sinks
    THEN [err |-> "Trying to construct logger, but cannot find sink",
          n |-> Head(names), result |-> <<>>]
    ELSE logger_sinks(Tail(names), sinks, Append(result, sinks[Head(names)]))

\* spdlog::details::async_log_helper, constructed with an async_logger: its
\* worker thread has not run yet, its queue is empty.  events is what the
\* worker thread has done so far.
async_log_helper(mode, sinks) ==
    [pc |-> "start", worker_warmup |-> mode.worker_warmup,
     worker_teardown |-> mode.worker_teardown, sinks |-> sinks, q |-> <<>>, events |-> <<>>]

\* spdlog::details::registry::create: a logger of this name must not exist; the
\* new logger takes the global pattern and error handler; in async mode it is
\* an async_logger, which starts its worker: [err, spd]
registry_create(s, name, sinks) ==
    IF name \in DOMAIN s.loggers
    THEN [err |-> "logger with name already exists", args |-> <<name>>, spd |-> s]
    ELSE [err |-> "none", args |-> <<>>,
          spd |-> [s EXCEPT !.loggers =
                      map_assign(@, name, [sinks |-> sinks, level |-> "info",
                                            pattern |-> s.pattern,
                                            error_handler |-> s.error_handler]),
                            !.workers = IF s.async.on
                                        THEN map_assign(@, name, async_log_helper(s.async, sinks))
                                        ELSE @]]

\* make_logger without the call of set_level
logger_set_level_skip(s, name, lvl) == s

\* make_logger, line 833: logger->set_level(...)
logger_set_level(s, name, lvl) == [s EXCEPT !.loggers[name].level = lvl]

\* A throw out of make_logger that first undoes what configure() has done
logger_throw_undo(what, args, created, s) ==
    [created |-> FALSE, err |-> what, args |-> args,
     spd |-> [s EXCEPT !.loggers = [l \in {} |-> l], !.pattern = default_pattern,
                       !.error_handler = "default"]]

\* A make_logger that takes the logger of the failing directive out of the
\* registry again before the exception leaves it (the code does not).
logger_throw_unregister(what, args, created, s) ==
    [created |-> FALSE, err |-> what, args |-> args,
     spd |-> [s EXCEPT !.loggers = [l \in DOMAIN s.loggers \ {args[1]} |-> s.loggers[l]]]]

\* make_logger, lines 824 and 853: the exception leaves make_logger and
\* configure(); nothing is undone on the way out.
logger_throw(what, args, created, s) ==
    [created |-> created, err |-> what, args |-> args, spd |-> s]

\* logger_functions::make_logger: [created, err, args, spd]
make_logger(name, config, sinks, s) ==
    Let(logger_sinks(config.sinks, sinks, <<>>), LAMBDA ls :
        IF ls.err # "none"
        THEN logger_throw(ls.err, <<name, ls.n>>, FALSE, s)
        ELSE Let(registry_create(s, name, ls.result), LAMBDA c :
            IF c.err # "none"
            THEN [created |-> FALSE, err |-> c.err, args |-> c.args, spd |-> s]
            ELSE Let(logger_set_level(c.spd, name, find_log_level(config.threshold)),
                     LAMBDA s1 :
                Let(get_attribute_default(S_pattern, config.attributes, <<>>),
                    LAMBDA pattern :
                Let(IF pattern # <<>> THEN [s1 EXCEPT !.loggers[name].pattern = pattern]
                    ELSE s1, LAMBDA s2 :
                Let(get_attribute_default(S_set_error_handler, config.attributes, <<>>),
                    LAMBDA handler :
                    IF handler = <<>>
                    THEN [created |-> TRUE, err |-> "none", args |-> <<>>, spd |-> s2]
                    ELSE IF handler \notin DOMAIN error_handler_registry
                    THEN logger_throw("cannot find error handler", <<name>>, TRUE, s2)
                    ELSE [created |-> TRUE, err |-> "none", args |-> <<>>,
                          spd |-> [s2 EXCEPT !.loggers[name].error_handler =
                                                error_handler_registry[handler]]]))))))

\* configuration::configure, lines 949-952: one iteration of the loop over m_loggers
configure_logger ==
    /\ conf_pc = "loggers"
    /\ \E name \in {Head(conf_it)} :
       \E r \in {make_logger(name, m_loggers[name], conf_sinks, spd)}, n \in {next_iteration} :
           /\ calls' = IF r.created
                       THEN Append(calls, [kind |-> "logger", name |-> name, inst |-> <<>>])
                       ELSE calls
           /\ spd' = r.spd
           /\ IF r.err # "none"
              THEN /\ conf_pc' = "failed" /\ conf_it' = <<>>
                   /\ conf_err' = [what |-> r.err, args |-> r.args]
              ELSE /\ conf_pc' = n.pc
                   /\ conf_it' = n.it
                   /\ UNCHANGED conf_err
    /\ UNCHANGED <<sink_registry, global_func_registry, error_handler_registry, m_globals,
                   m_sinks, m_loggers, directives, conf_sinks>>
    /\ ConfFrame

NextConf ==
    \/ register_error_handler(S_handler, "handler")
    \/ \E d \in GlobalDirectives : add_global(d[1], d[2])
    \/ \E d \in SinkDirectives : add_sink(d[1], d[2])
    \/ \E d \in LoggerDirectives : add_logger(d[1], d[2])
    \/ configure
    \/ configure_global
    \/ configure_sink
    \/ configure_logger

SpecConf == InitConf /\ [][NextConf]_vars


----
\* Observations of a run of configure().

\* The events of one kind in the log of configure().
CallsOf(kind) == {i \in DOMAIN calls : calls[i].kind = kind}

PhaseRank(kind) == CASE kind = "global" -> 1 [] kind = "sink" -> 2 [] kind = "logger" -> 3

\* The positions of the colons of a string, and the names between them: the
\* k-th name lies between the (k-1)-th and the k-th colon.  The empty string
\* names nothing.
Colons(str) == {i \in 1..Len(str) : str[i] = ":"}

ColonAt(str, k) ==
    IF k = 0 THEN 0
    ELSE IF k > Cardinality(Colons(str)) THEN Len(str) + 1
    ELSE CHOOSE p \in Colons(str) : Cardinality({q \in Colons(str) : q < p}) = k - 1

ColonNames(str) ==
    IF str = <<>> THEN <<>>
    ELSE [k \in 1..(Cardinality(Colons(str)) + 1) |->
             SubSeq(str, ColonAt(str, k - 1) + 1, ColonAt(str, k) - 1)]

\* The sink object the factory returned for the sink directive of this name.
InstanceFor(name) == calls[CHOOSE i \in CallsOf("sink") : calls[i].name = name].inst

\* C9: in every run of configure(), in whatever order the directives were
\* added, every invocation of a global-directive handler precedes every
\* invocation of a sink factory, and every invocation of a sink factory
\* precedes the construction of any logger: the log of configure() is ordered
\* by phase, a sink factory runs only after every global directive with a
\* registered handler has been handled, and a logger is constructed only after
\* the factory of every sink directive has run.
C9_GlobalsThenSinksThenLoggers ==
    /\ \A i, j \in DOMAIN calls :
          i < j => PhaseRank(calls[i].kind) <= PhaseRank(calls[j].kind)
    /\ CallsOf("sink") \cup CallsOf("logger") # {} =>
          \A g \in DOMAIN m_globals \cap DOMAIN global_func_registry :
             \E i \in CallsOf("global") : calls[i].name = g
    /\ CallsOf("logger") # {} =>
          \A n \in DOMAIN m_sinks : \E i \in CallsOf("sink") : calls[i].name = n

\* A run of configure() that handled a global directive, made a sink and
\* constructed a logger, the directives having been added in the order
\* logger, sink, global.
C9_Witness ==
    /\ conf_pc = "done"
    /\ [i \in DOMAIN directives |-> directives[i].kind] = <<"logger", "sink", "global">>
    /\ CallsOf("global") # {} /\ CallsOf("sink") # {} /\ CallsOf("logger") # {}

\* C10: for every logger directive whose sinks attribute names only declared
\* sinks, the logger that configure() produced has a sink list that equals,
\* element by element and in the same order, duplicates included, the sink
\* objects made for the colon-separated names of that attribute.
C10_LoggerSinksMatchAttribute ==
    \A l \in DOMAIN m_loggers \cap DOMAIN spd.loggers :
       LET names == ColonNames(m_loggers[l].attributes[S_sinks])
       IN  (\A k \in DOMAIN names : names[k] \in DOMAIN m_sinks) =>
              /\ Len(spd.loggers[l].sinks) = Len(names)
              /\ \A k \in DOMAIN names : spd.loggers[l].sinks[k] = InstanceFor(names[k])

\* configure() has produced a logger from a directive with sinks=b:a:b, the
\* sinks a and b being two different objects.
C10_Witness ==
    /\ conf_pc = "done"
    /\ \E l \in DOMAIN m_loggers \cap DOMAIN spd.loggers :
          /\ m_loggers[l].attributes[S_sinks] = <<"b", ":", "a", ":", "b">>
          /\ Len(spd.loggers[l].sinks) = 3
          /\ spd.loggers[l].sinks[1] # spd.loggers[l].sinks[2]


\* The values streamed into the message of the exception that ended configure().
Mentioned == {conf_err.args[i] : i \in DOMAIN conf_err.args}

\* The events configure() logs when nothing fails: the global directives that
\* have a handler, the sink directives and the logger directives, each in key
\* order.
KindNames(kind, keys) == [i \in DOMAIN keys |-> <<kind, keys[i]>>]

ExpectedCalls ==
    KindNames("global", SortedKeys(DOMAIN m_globals \cap DOMAIN global_func_registry))
    \o KindNames("sink", SortedKeys(DOMAIN m_sinks))
    \o KindNames("logger", SortedKeys(DOMAIN m_loggers))

ActualCalls == [i \in DOMAIN calls |-> <<calls[i].kind, calls[i].name>>]

\* C11: when a sink directive names a type that is not in the sink registry,
\* configure() fails with an error that identifies the requested type and the
\* declared name of the sink directive.
C11_UnknownSinkTypeErrorNamesTypeAndSink ==
    /\ \A n \in DOMAIN m_sinks :
          m_sinks[n].type \notin DOMAIN sink_registry => conf_pc # "done"
    /\ conf_err.what = "Cannot create sink of type" =>
          /\ conf_pc = "failed"
          /\ \E n \in DOMAIN m_sinks :
                /\ m_sinks[n].type \notin DOMAIN sink_registry
                /\ m_sinks[n].type \in Mentioned
                /\ n \in Mentioned

\* C12: when the sink list of a logger directive names a sink that no sink
\* directive declared, configure() does not complete and never creates a logger
\* of that directive's name; the exception it throws for it names the logger
\* and the missing sink.
C12_MissingSinkErrorNamesLoggerAndSink ==
    /\ \A l \in DOMAIN m_loggers :
          LET names == ColonNames(m_loggers[l].attributes[S_sinks])
          IN  (\E k \in DOMAIN names : names[k] \notin DOMAIN m_sinks) =>
                 conf_pc # "done" /\ l \notin DOMAIN spd.loggers
    /\ conf_err.what = "Trying to construct logger, but cannot find sink" =>
          /\ conf_pc = "failed"
          /\ Len(conf_err.args) = 2
          /\ conf_err.args[1] \in DOMAIN m_loggers
          /\ conf_err.args[1] \notin DOMAIN spd.loggers
          /\ conf_err.args[2] \notin DOMAIN m_sinks
          /\ LET names == ColonNames(m_loggers[conf_err.args[1]].attributes[S_sinks])
             IN  \E k \in DOMAIN names : names[k] = conf_err.args[2]

\* configure() failed at logger l, whose sink list a:z names the undeclared z.
C12_Witness ==
    /\ conf_pc = "failed"
    /\ conf_err.what = "Trying to construct logger, but cannot find sink"
    /\ conf_err.args = << <<"l">>, <<"z">> >>
    /\ <<"a">> \in DOMAIN m_sinks

\* C13: when a logger directive names an error handler that is not in the
\* error-handler registry, configure() fails with an error whose message
\* includes the logger's name and the name of the missing error handler.
C13_MissingHandlerErrorNamesLoggerAndHandler ==
    conf_err.what = "cannot find error handler" =>
       /\ conf_pc = "failed"
       /\ \E l \in DOMAIN m_loggers :
             /\ S_set_error_handler \in DOMAIN m_loggers[l].attributes
             /\ m_loggers[l].attributes[S_set_error_handler]
                   \notin DOMAIN error_handler_registry
             /\ l \in Mentioned
             /\ m_loggers[l].attributes[S_set_error_handler] \in Mentioned

\* C14: a global directive whose name has no handler in the global-directive
\* registry is skipped by configure(): the step that visits it invokes nothing,
\* changes nothing, raises no error and moves on; and a run that ends without
\* an error has handled every other global directive, made every sink and
\* constructed every logger.
C14_UnknownGlobalIsSkipped ==
    [][ /\ (conf_pc = "globals" /\ Head(conf_it) \notin DOMAIN global_func_registry) =>
              /\ calls' = calls
              /\ spd' = spd
              /\ conf_err' = conf_err
              /\ conf_pc' # "failed"
              /\ conf_it' # conf_it
        /\ \A i \in DOMAIN calls' :
              calls'[i].kind = "global" => calls'[i].name \in DOMAIN global_func_registry
        /\ conf_pc' = "done" => ActualCalls' = ExpectedCalls'
      ]_vars

\* configure() has completed a run over a global directive without a handler,
\* a sink directive and a logger directive.
C14_Witness ==
    /\ conf_pc = "done"
    /\ \E g \in DOMAIN m_globals : g \notin DOMAIN global_func_registry
    /\ CallsOf("sink") # {} /\ CallsOf("logger") # {}

\* The keys of the directives of a kind that configure() invokes something for
KeysOf(kind) ==
    CASE kind = "global" -> DOMAIN m_globals \cap DOMAIN global_func_registry
      [] kind = "sink" -> DOMAIN m_sinks
      [] kind = "logger" -> DOMAIN m_loggers

NamesCalled(kind) == {calls[i].name : i \in CallsOf(kind)}

\* The call c comes next in the order of configure(): the directives of the
\* earlier kinds and the smaller keys of its own kind have been visited, and
\* nothing else of its kind or of a later kind.
CallInOrder(c) ==
    /\ c.name \in KeysOf(c.kind)
    /\ NamesCalled(c.kind) = {k \in KeysOf(c.kind) : StrLess(k, c.name)}
    /\ \A kind \in {"global", "sink", "logger"} :
          /\ PhaseRank(kind) < PhaseRank(c.kind) => NamesCalled(kind) = KeysOf(kind)
          /\ PhaseRank(kind) > PhaseRank(c.kind) => NamesCalled(kind) = {}

\* C15: configure() is fail-fast and not transactional.  The step that fails
\* leaves the global pattern, the global error handler, the loggers registered
\* so far and the log of what was invoked as they were; what was invoked
\* before stays in effect; the directives are visited in order without a gap
\* and no step follows the failure, so none after the failing one is processed.
C15_FailFastNotTransactional ==
    [][ /\ conf_pc' = "failed" =>
              /\ spd'.pattern = spd.pattern
              /\ spd'.error_handler = spd.error_handler
              /\ \A l \in DOMAIN spd.loggers :
                    l \in DOMAIN spd'.loggers /\ spd'.loggers[l] = spd.loggers[l]
              /\ SubSeq(calls', 1, Len(calls)) = calls
              /\ Len(calls') <= Len(calls) + 1
        /\ conf_pc # "failed"
        /\ calls' # calls => CallInOrder(calls'[Len(calls')])
        /\ \A i \in DOMAIN calls' :
              /\ (calls'[i].kind = "global" /\ calls'[i].name = S_set_pattern
                  /\ (conf_pc' = "failed" \/ i < Len(calls'))) =>
                    spd'.pattern = m_globals[S_set_pattern].value
              /\ calls'[i].kind = "logger" => calls'[i].name \in DOMAIN spd'.loggers
      ]_vars

\* configure() failed at a logger directive after it had set the global
\* pattern and made a sink; the pattern is still in effect.
C15_Witness ==
    /\ conf_pc = "failed"
    /\ CallsOf("global") # {} /\ CallsOf("sink") # {}
    /\ spd.pattern # default_pattern
    /\ DOMAIN m_loggers # {}

\* C16: configure() invokes the handlers of the global directives in the order
\* in which the directives were added.
C16_GlobalsRunInInsertionOrder ==
    \A i, j \in CallsOf("global") :
       i < j =>
          \E p, q \in DOMAIN directives :
             /\ p < q
             /\ directives[p].kind = "global" /\ directives[p].name = calls[i].name
             /\ directives[q].kind = "global" /\ directives[q].name = calls[j].name


----
\* The severity-name lookup, exercised through logger directives.

\* The primary values the logger directives are written with: the seven names
\* of ItemMap, names it does not hold, and other spellings of its names.
LevelKeys ==
    { S_TRACE, S_DEBUG, S_INFO, S_WARNINGS, S_ERROR, S_FATAL, S_OFF,
      <<"B", "O", "G", "U", "S">>, <<"W", "A", "R", "N">>,
      <<"C", "R", "I", "T", "I", "C", "A", "L">>, <<>>,
      <<"t", "r", "a", "c", "e">>, <<"T", "r", "a", "c", "e">>, <<"o", "f", "f">> }

\* (name, config string) of the logger directives: <key>,[sinks=a]
LevelDirectives ==
    { << <<"l">>, k \o <<",", "[", "s", "i", "n", "k", "s", "=", "a", "]">> >> :
         k \in LevelKeys }

NextLevel ==
    \/ add_sink(<<"a">>, S_null_sink_st)
    \/ \E d \in LevelDirectives : add_logger(d[1], d[2])
    \/ configure
    \/ configure_sink
    \/ configure_logger

SpecLevel == InitConf /\ [][NextLevel]_vars

\* The threshold the lookup contract gives a name.
ExpectedLevel(key) ==
    CASE key = <<"T", "R", "A", "C", "E">> -> "trace"
      [] key = <<"D", "E", "B", "U", "G">> -> "debug"
      [] key = <<"I", "N", "F", "O">> -> "info"
      [] key = <<"W", "A", "R", "N", "I", "N", "G", "S">> -> "warn"
      [] key = <<"E", "R", "R", "O", "R">> -> "err"
      [] key = <<"F", "A", "T", "A", "L">> -> "critical"
      [] key = <<"O", "F", "F">> -> "off"
      [] OTHER -> "info"

ToUpper(str) ==
    [i \in DOMAIN str |->
        IF \E k \in DOMAIN LowerCase : LowerCase[k] = str[i]
        THEN UpperCase[CHOOSE k \in DOMAIN LowerCase : LowerCase[k] = str[i]]
        ELSE str[i]]

\* C17: the severity-name lookup maps exactly TRACE, DEBUG, INFO, WARNINGS,
\* ERROR, FATAL and OFF to trace, debug, info, warn, err, critical and off, and
\* every other string (BOGUS, WARN, CRITICAL, the empty string) to info; a
\* logger directive never fails because of its severity name.
C17_LevelLookupTable ==
    /\ \A k \in LevelKeys : find_log_level(k) = ExpectedLevel(k)
    /\ \A l \in DOMAIN spd.loggers :
          spd.loggers[l].level = ExpectedLevel(m_loggers[l].threshold)
    /\ (DOMAIN m_loggers # {} /\ DOMAIN m_sinks # {}) => conf_pc # "failed"
    /\ (conf_pc = "build" /\ directives # <<>>) => conf_err = NoError

\* configure() has constructed a logger whose directive carries the primary
\* value BOGUS; its threshold is info.
C17_Witness ==
    /\ conf_pc = "done"
    /\ <<"l">> \in DOMAIN spd.loggers
    /\ m_loggers[<<"l">>].threshold = <<"B", "O", "G", "U", "S">>
    /\ spd.loggers[<<"l">>].level = "info"

\* C18: the threshold of a logger is resolved from the primary value of its
\* directive without regard to case: every spelling of a recognized name gives
\* the threshold of the upper-case name.
C18_LevelLookupIgnoresCase ==
    \A l \in DOMAIN spd.loggers :
       spd.loggers[l].level = ExpectedLevel(ToUpper(m_loggers[l].threshold))


----
\* Logging through a configured logger.

MaxLogs == 3

\* The sink function of the tests' test_sink<null_mutex>
custom_sink_function_st == [func |-> "custom", mutex |-> "null_mutex"]

\* spdlog::level::level_enum
level_rank(l) ==
    CASE l = "trace" -> 0
      [] l = "debug" -> 1
      [] l = "info" -> 2
      [] l = "warn" -> 3
      [] l = "err" -> 4
      [] l = "critical" -> 5
      [] l = "off" -> 6

\* The levels of logger::trace, debug, info, warn, error and critical
MessageLevels == {"trace", "debug", "info", "warn", "err", "critical"}

\* spdlog::logger::should_log
should_log(lg, lvl) == level_rank(lvl) >= level_rank(lg.level)

\* The messages a sink has been handed
Received(id) == IF id \in DOMAIN sink_messages THEN sink_messages[id] ELSE <<>>

\* spdlog::logger::_sink_it: the message is handed to each entry of the
\* logger's sink list, in order; the exception a sink throws ends the loop.
\* [rec, err, args]
RECURSIVE logger_sink_it(_, _, _)
logger_sink_it(sinks, msg, rec) ==
    IF sinks = <<>> THEN [rec |-> rec, err |-> "none", args |-> <<>>]
    ELSE IF Head(sinks).class = "throwing_sink"
    THEN [rec |-> rec, err |-> "Error in 'throwing_sink': ", args |-> <<msg.payload>>]
    ELSE logger_sink_it(Tail(sinks), msg,
                        (Head(sinks).id :>
                            Append(IF Head(sinks).id \in DOMAIN rec
                                   THEN rec[Head(sinks).id] ELSE <<>>, msg)) @@ rec)

\* spdlog::logger::log, the handlers of its try block: the exception of a sink
\* goes to the error handler of the logger; without one it leaves log.
\* [handled, escaped]
logger_catch(lg, r) ==
    IF r.err = "none" THEN [handled |-> <<>>, escaped |-> FALSE]
    ELSE IF lg.error_handler = "default" THEN [handled |-> <<>>, escaped |-> TRUE]
    ELSE [handled |-> <<[handler |-> lg.error_handler, what |-> r.err, args |-> r.args]>>,
          escaped |-> FALSE]

\* spdlog::logger::log(lvl, msg) on the logger the registry holds under name
logger_log(name, lvl) ==
    /\ conf_pc \in {"done", "failed"}
    /\ name \in DOMAIN spd.loggers
    /\ Len(logged) < MaxLogs
    /\ \E msg \in {[level |-> lvl, payload |-> Len(logged) + 1]} :
       \E r \in {IF should_log(spd.loggers[name], lvl)
                 THEN logger_sink_it(spd.loggers[name].sinks, msg, sink_messages)
                 ELSE [rec |-> sink_messages, err |-> "none", args |-> <<>>]} :
       \E c \in {logger_catch(spd.loggers[name], r)} :
          /\ logged' = Append(logged, [logger |-> name, msg |-> msg, handled |-> c.handled,
                                       escaped |-> c.escaped])
          /\ sink_messages' = r.rec
    /\ UNCHANGED <<sink_registry, global_func_registry, error_handler_registry, m_globals,
                   m_sinks, m_loggers, directives, conf_pc, conf_it, conf_sinks, calls, spd,
                   conf_err, warmup_registry, teardown_registry, registered,
                   fn_in, fn_out>>
    /\ UNCHANGED <<sinkVars, mtVars>>

\* (name, config string) of the logger directives: <threshold>,[sinks=...]
LogDirectives ==
    { << <<"l">>, k \o <<",", "[", "s", "i", "n", "k", "s", "=", "a", ":", "b", "]">> >> :
         k \in {S_TRACE, S_INFO, S_ERROR, S_OFF} }
    \cup { << <<"l">>, S_INFO \o <<",", "[", "s", "i", "n", "k", "s", "=", "a", ":", "a", "]">> >> }

NextLog ==
    \/ register_custom_sink(S_custom, custom_sink_function)
    \/ \E n \in {<<"a">>, <<"b">>} : add_sink(n, S_custom)
    \/ \E d \in LogDirectives : add_logger(d[1], d[2])
    \/ configure
    \/ configure_sink
    \/ configure_logger
    \/ \E lvl \in MessageLevels : logger_log(<<"l">>, lvl)

SpecLog == InitConf /\ [][NextLog]_vars

\* The messages logged through logger name at or above the level the lookup
\* contract gives threshold, in the order they were logged.
DeliveredAt(name, threshold) ==
    LET Passes(e) == /\ e.logger = name
                     /\ level_rank(e.msg.level) >= level_rank(ExpectedLevel(threshold))
        sel == SelectSeq(logged, Passes)
    IN  [i \in DOMAIN sel |-> sel[i].msg]

DistinctSinks(sinks) ==
    \A i, j \in DOMAIN sinks : sinks[i].id = sinks[j].id => i = j

----
\* The registries.

\* sink_functions::make_sink, lines 616-622: the sink function that is called
sink_function_of(name) ==
    IF name \notin DOMAIN sink_registry THEN [func |-> "end", mutex |-> "end"]
    ELSE sink_registry[name]

\* global_functions::call_global_func, lines 799-807: the function that is called
global_function_of(name) ==
    IF name \notin DOMAIN global_func_registry THEN "end" ELSE global_func_registry[name]

\* global_func_set_error_handler, lines 771-777: the handler that is installed
error_handler_of(name) ==
    IF name \notin DOMAIN error_handler_registry THEN "end"
    ELSE error_handler_registry[name]

\* The names and callables the registrations are made with
SinkNames == {S_null_sink_st, S_custom}
SinkFunctions == {custom_sink_function, custom_sink_function_st}
GlobalNames == {S_set_pattern, <<"z", "z">>}
CallbackNames == {<<"w">>, <<"x">>}
HandlerNames == {S_handler, <<"h">>}
Callables == {"f1", "f2"}

NextReg ==
    \/ \E n \in SinkNames, f \in SinkFunctions : register_custom_sink(n, f)
    \/ \E n \in GlobalNames, f \in Callables : register_custom_global_function(n, f)
    \/ \E n \in CallbackNames, f \in Callables : register_worker_warmup(n, f)
    \/ \E n \in CallbackNames, f \in Callables : register_worker_teardown(n, f)
    \/ \E n \in HandlerNames, f \in Callables : register_error_handler(n, f)

SpecReg == InitConf /\ [][NextReg]_vars

\* What each registry resolves each name to
Lookups ==
    [sink |-> [n \in SinkNames \cup {S_stdout_sink_st} |-> sink_function_of(n)],
     global |-> [n \in GlobalNames \cup {S_set_async} |-> global_function_of(n)],
     warmup |-> [n \in CallbackNames |-> get_worker_warmup_cb(n)],
     teardown |-> [n \in CallbackNames |-> get_worker_teardown_cb(n)],
     handler |-> [n \in HandlerNames |-> error_handler_of(n)]]

\* What each registry resolves each name to before any register_* call
InitialLookups ==
    [sink |-> [n \in SinkNames \cup {S_stdout_sink_st} |->
                  IF n \in DOMAIN make_sink_registry THEN make_sink_registry[n]
                  ELSE [func |-> "end", mutex |-> "end"]],
     global |-> [n \in GlobalNames \cup {S_set_async} |->
                    IF n \in DOMAIN make_global_func_registry
                    THEN make_global_func_registry[n] ELSE "end"],
     warmup |-> [n \in CallbackNames |-> "nullptr"],
     teardown |-> [n \in CallbackNames |-> "nullptr"],
     handler |-> [n \in HandlerNames |-> "end"]]

\* C20: in each of the five registries the lookup of a name resolves to the
\* callable of the latest registration under that name, whether or not the
\* name was registered before and also when it is a built-in name; a name that
\* no register_* call named resolves as it did at the start, whatever was
\* registered under other names and in the other registries.
C20_LatestRegistrationWins ==
    \A r \in DOMAIN Lookups :
       \A n \in DOMAIN Lookups[r] :
          Lookups[r][n] = IF n \in DOMAIN registered[r] THEN registered[r][n]
                          ELSE InitialLookups[r][n]

\* The built-in sink type null_sink_st and the built-in global directive
\* set_pattern have been registered again, and a handler was registered twice.
C20_Witness ==
    /\ sink_function_of(S_null_sink_st) = custom_sink_function
    /\ global_function_of(S_set_pattern) = "f2"
    /\ error_handler_of(S_handler) = "f2"
    /\ get_worker_warmup_cb(<<"w">>) = "f1"
    /\ get_worker_teardown_cb(<<"w">>) = "f2"
    /\ sink_function_of(S_stdout_sink_st) = make_sink_registry[S_stdout_sink_st]
    /\ S_custom \notin DOMAIN registered.sink


----
\* Duplicate names.

\* The config string of the latest add_* call of this kind for this name.
LastConfig(kind, name) ==
    directives[CHOOSE p \in DOMAIN directives :
                  /\ directives[p].kind = kind /\ directives[p].name = name
                  /\ \A q \in DOMAIN directives :
                        (q > p /\ directives[q].kind = kind) => directives[q].name # name
              ].config

\* C22: add_global, add_sink and add_logger overwrite on a duplicate name: the
\* configuration holds, under each name, the directive of the latest add_*
\* call for that name, and configure() makes the sink of a name with the sink
\* function of the type that call gave.
C22_LaterDirectiveWins ==
    /\ \A n \in DOMAIN m_globals : m_globals[n] = global_config(LastConfig("global", n)).cfg
    /\ \A n \in DOMAIN m_sinks : m_sinks[n] = sink_config(LastConfig("sink", n)).cfg
    /\ \A n \in DOMAIN m_loggers : m_loggers[n] = logger_config(LastConfig("logger", n)).cfg
    /\ \A i \in CallsOf("sink") :
          LET type == sink_config(LastConfig("sink", calls[i].name)).cfg.type
          IN  type \in DOMAIN sink_registry =>
                 calls[i].inst.class =
                    sink_function_call(sink_registry[type], m_sinks[calls[i].name], 0).inst.class


----
\* The csv parser on its own.

MaxFieldLen == 2

\* The strings over a letter, the comma and the double quote
RECURSIVE FieldTexts(_)
FieldTexts(n) ==
    IF n = 0 THEN {<<>>}
    ELSE FieldTexts(n - 1)
         \cup {Append(t, c) : t \in FieldTexts(n - 1), c \in {"a", ",", "\""}}

\* A field as it is written: in double quotes, or bare when it is not empty and
\* holds no comma and no quote.  junk: a letter follows the closing quote.
CsvFields ==
    {[text |-> t, quoted |-> TRUE, junk |-> j] : t \in FieldTexts(MaxFieldLen), j \in BOOLEAN}
    \cup {[text |-> t, quoted |-> FALSE, junk |-> FALSE] :
             t \in {u \in FieldTexts(MaxFieldLen) :
                       u # <<>> /\ \A i \in DOMAIN u : u[i] = "a"}}

\* The lines of one field and of two fields
CsvLists == {<<f>> : f \in CsvFields} \cup {<<f, g>> : f, g \in CsvFields}

\* A quoted field: every quote of the text doubled, the whole in quotes
RECURSIVE CsvDoubled(_)
CsvDoubled(t) ==
    IF t = <<>> THEN <<>>
    ELSE (IF Head(t) = "\"" THEN <<"\"", "\"">> ELSE <<Head(t)>>) \o CsvDoubled(Tail(t))

CsvWritten(f) ==
    IF f.quoted
    THEN <<"\"">> \o CsvDoubled(f.text) \o <<"\"">> \o (IF f.junk THEN <<"a">> ELSE <<>>)
    ELSE f.text

\* The csv line of a list of fields
RECURSIVE CsvText(_)
CsvText(l) ==
    IF l = <<>> THEN <<>>
    ELSE IF Len(l) = 1 THEN CsvWritten(l[1])
    ELSE CsvWritten(l[1]) \o <<",">> \o CsvText(Tail(l))

InitCsv ==
    /\ ConfStart
    /\ fn_in \in CsvLists
    /\ fn_out = NotCalled

\* utilities::parse_csv(csv) called with the line of fn_in
call_parse_csv ==
    /\ ~fn_out.done
    /\ \E r \in {parse_csv(CsvText(fn_in), SizeMax)} :
          fn_out' = [done |-> TRUE, err |-> r.err, result |-> r.result]
    /\ UNCHANGED <<sinkVars, mtVars, sink_registry, global_func_registry,
                   error_handler_registry, m_globals, m_sinks, m_loggers, directives,
                   conf_pc, conf_it, conf_sinks, calls, spd, conf_err, warmup_registry,
                   teardown_registry, sink_messages, logged, registered, fn_in>>

SpecCsv == InitCsv /\ [][call_parse_csv]_vars

\* C27: parse_csv without a field cap honors double-quote escaping: of a line
\* of fields written bare or in quotes (commas and doubled quotes inside the
\* quotes) it returns the fields as they were before they were written, and
\* when some closing quote is followed by a letter the parse fails with the
\* malformed-input error.
C27_CsvQuoting ==
    fn_out.done =>
       IF \E i \in DOMAIN fn_in : fn_in[i].junk
       THEN fn_out.err
       ELSE /\ ~fn_out.err
            /\ fn_out.result = [i \in DOMAIN fn_in |-> fn_in[i].text]

\* Two fields were parsed: one with a comma between quotes, one with a doubled
\* quote.
C27_Witness ==
    /\ fn_out.done /\ ~fn_out.err
    /\ fn_out.result = << <<"a", ",">>, <<"\"", "a">> >>


----
\* config_line::parse on its own.

MaxAttrs == 2

\* An attribute as it is written: key, key=val or key=val=val
AttrItems ==
    {[key |-> <<"k">>, val |-> <<"a">>, eq |-> 1], [key |-> <<"k">>, val |-> <<"b">>, eq |-> 1],
     [key |-> <<"j">>, val |-> <<"a">>, eq |-> 1], [key |-> <<"k">>, val |-> <<"a">>, eq |-> 0],
     [key |-> <<"k">>, val |-> <<"a">>, eq |-> 2]}

RECURSIVE AttrLists(_)
AttrLists(n) ==
    IF n = 0 THEN {<<>>}
    ELSE AttrLists(n - 1) \cup {Append(l, a) : l \in AttrLists(n - 1), a \in AttrItems}

AttrWritten(a) ==
    CASE a.eq = 0 -> a.key
      [] a.eq = 1 -> a.key \o <<"=">> \o a.val
      [] a.eq = 2 -> a.key \o <<"=">> \o a.val \o <<"=">> \o a.val

RECURSIVE AttrText(_)
AttrText(l) ==
    IF l = <<>> THEN <<>>
    ELSE IF Len(l) = 1 THEN AttrWritten(l[1])
    ELSE AttrWritten(l[1]) \o <<",">> \o AttrText(Tail(l))

\* How the attribute list is bracketed in the second token
BracketShapes == {"pair", "padded", "none", "open", "close", "swapped"}

Bracketed(shape, text) ==
    CASE shape = "pair" -> <<"[">> \o text \o <<"]">>
      [] shape = "padded" -> <<"x", "[">> \o text \o <<"]", "y">>
      [] shape = "none" -> text
      [] shape = "open" -> <<"[">> \o text
      [] shape = "close" -> text \o <<"]">>
      [] shape = "swapped" -> <<"]">> \o text \o <<"[">>

\* The values a config line is written with: the fields of the csv parser and
\* the empty bare value
LineValues ==
    {f \in CsvFields : ~f.junk} \cup {[text |-> <<>>, quoted |-> FALSE, junk |-> FALSE]}

\* The config lines: a value alone, or a value, a comma and a second token
ParseInputs ==
    {[value |-> v, tail |-> FALSE, shape |-> "none", items |-> <<>>] : v \in LineValues}
    \cup {[value |-> v, tail |-> TRUE, shape |-> sh, items |-> l] :
             v \in LineValues, sh \in BracketShapes, l \in AttrLists(MaxAttrs)}

SecondToken(in) == IF in.tail THEN Bracketed(in.shape, AttrText(in.items)) ELSE <<>>

LineText(in) ==
    CsvWritten(in.value) \o (IF in.tail THEN <<",">> \o SecondToken(in) ELSE <<>>)

InitParse ==
    /\ ConfStart
    /\ fn_in \in ParseInputs
    /\ fn_out = NotCalled

\* configuration::config_line::parse called with the line of fn_in
call_config_line_parse ==
    /\ ~fn_out.done
    /\ \E r \in {config_line_parse(LineText(fn_in))} :
          fn_out' = [done |-> TRUE, err |-> r.err, value |-> r.value,
                     attributes |-> r.attributes]
    /\ UNCHANGED <<sinkVars, mtVars, sink_registry, global_func_registry,
                   error_handler_registry, m_globals, m_sinks, m_loggers, directives,
                   conf_pc, conf_it, conf_sinks, calls, spd, conf_err, warmup_registry,
                   teardown_registry, sink_messages, logged, registered, fn_in>>

SpecParse == InitParse /\ [][call_config_line_parse]_vars

\* The value of the last attribute of the list that is written with this key
LastValue(items, key) ==
    items[CHOOSE i \in DOMAIN items :
             /\ items[i].key = key
             /\ \A j \in DOMAIN items : j > i => items[j].key # key].val

WellFormedItems(items) == \A i \in DOMAIN items : items[i].eq = 1

\* C23: when the attribute list of a directive holds an attribute key more
\* than once, the parsed attribute map holds the key once, with the value of
\* its last occurrence.
C23_LastAttributeWins ==
    (fn_out.done /\ fn_in.tail /\ fn_in.shape = "pair" /\ WellFormedItems(fn_in.items)) =>
       /\ fn_out.err = "none"
       /\ DOMAIN fn_out.attributes = {fn_in.items[i].key : i \in DOMAIN fn_in.items}
       /\ \A k \in DOMAIN fn_out.attributes :
             fn_out.attributes[k] = LastValue(fn_in.items, k)


SplitErrors ==
    {"Malformed string passed to csv parser", "Empty config line found",
     "Invalid config line found"}

\* C26: config_line::parse cuts the line at its first unquoted comma only.  The
\* value is the text before it without its enclosing quotes and with the commas
\* inside the quotes kept; what follows the comma goes whole to the attribute
\* parsing however many commas it holds; a line without an unquoted comma gives
\* the value and no attribute; the empty line is a format error.
C26_SplitAtFirstComma ==
    fn_out.done =>
       IF LineText(fn_in) = <<>> THEN fn_out.err = "Empty config line found"
       ELSE /\ fn_out.err \notin SplitErrors
            /\ fn_out.err = "none" => fn_out.value = fn_in.value.text
            /\ (~fn_in.tail \/ SecondToken(fn_in) = <<>>) =>
                  /\ fn_out.err = "none"
                  /\ DOMAIN fn_out.attributes = {}
            /\ (fn_in.tail /\ fn_in.shape \in {"pair", "padded"}) =>
                  IF WellFormedItems(fn_in.items)
                  THEN /\ fn_out.err = "none"
                       /\ DOMAIN fn_out.attributes =
                             {fn_in.items[i].key : i \in DOMAIN fn_in.items}
                  ELSE fn_out.err = "Invalid attribute definition found"

\* A quoted value that holds a comma, followed by two attributes
C26_Witness ==
    /\ fn_out.done
    /\ fn_in.value = [text |-> <<"a", ",">>, quoted |-> TRUE, junk |-> FALSE]
    /\ fn_in.tail
    /\ Len(fn_in.items) = 2
    /\ fn_out.err = "none"
    /\ fn_out.value = <<"a", ",">>
    /\ DOMAIN fn_out.attributes = {<<"k">>, <<"j">>}

\* C28: the attributes of a second token are read from the inside of its
\* bracket pair, from the first [ to the last ]; a second token without a
\* well-formed pair (no [, no ], or the ] before the [) is a parse error.
C28_BracketsRequired ==
    (fn_out.done /\ fn_in.tail /\ SecondToken(fn_in) # <<>>) =>
       IF fn_in.shape \in {"pair", "padded"}
       THEN WellFormedItems(fn_in.items) =>
               /\ fn_out.err = "none"
               /\ DOMAIN fn_out.attributes =
                     {fn_in.items[i].key : i \in DOMAIN fn_in.items}
       ELSE fn_out.err # "none"


----
\* configuration::create: a configuration read from a stream of lines.

MaxLines == 2

S_prefix == <<"s", "p", "d", "l", "o", "g", ".">>
S_cannot_understand == "Cannot understand this configuration string: "

\* std::string::find(sub): the first position (from 0) where sub starts, or npos
string_find(str, sub) ==
    LET hits == {i \in 0..(Len(str) - Len(sub)) : SubSeq(str, i + 1, i + Len(sub)) = sub}
    IN  IF hits = {} THEN npos ELSE CHOOSE i \in hits : \A j \in hits : i <= j

\* The configuration under construction in create, with the exception that
\* left it: [err, args, globals, sinks, loggers, added]
EmptyResult ==
    [err |-> "none", args |-> <<>>, globals |-> <<>>, sinks |-> <<>>, loggers |-> <<>>,
     added |-> <<>>]

create_failed(result, what, args) == [result EXCEPT !.err = what, !.args = args]

\* result.add_global / add_sink / add_logger with the directive built from the
\* text of the value (lines 903, 911, 915 and 958-971)
create_add(result, kind, name, config) ==
    Let(CASE kind = "global" -> global_config(config)
          [] kind = "sink" -> sink_config(config)
          [] kind = "logger" -> logger_config(config), LAMBDA d :
        IF d.err # "none" THEN create_failed(result, d.err, d.args)
        ELSE LET entry == [kind |-> kind, name |-> name, config |-> config]
             IN  CASE kind = "global" ->
                        [result EXCEPT !.globals = map_emplace(@, name, d.cfg),
                                       !.added = Append(@, entry)]
                   [] kind = "sink" ->
                        [result EXCEPT !.sinks = map_emplace(@, name, d.cfg),
                                       !.added = Append(@, entry)]
                   [] kind = "logger" ->
                        [result EXCEPT !.loggers = map_emplace(@, name, d.cfg),
                                       !.added = Append(@, entry)])

\* The body of create's loop with every line it cannot understand skipped
create_line_lenient(result, line) ==
    IF string_find(line, S_prefix) # 0 THEN result
    ELSE Let(tokenize(line, {"="}, 1), LAMBDA key_value :
         IF Len(key_value) # 2 THEN result
         ELSE Let(tokenize(key_value[1], {"."}, SizeMax), LAMBDA key_elements :
              IF Len(key_elements) = 2
              THEN create_add(result, "global", key_elements[2], key_value[2])
              ELSE IF Len(key_elements) = 3
              THEN IF key_elements[2] = <<"l", "o", "g", "g", "e", "r">>
                   THEN create_add(result, "logger", key_elements[3], key_value[2])
                   ELSE IF key_elements[2] = <<"s", "i", "n", "k">>
                   THEN create_add(result, "sink", key_elements[3], key_value[2])
                   ELSE result
              ELSE result))

\* configuration::create, lines 874-920: the body of the loop for one line
create_line(result, line) ==
    IF string_find(line, S_prefix) # 0 THEN result
    ELSE Let(tokenize(line, {"="}, 1), LAMBDA key_value :
         IF Len(key_value) # 2 THEN result
         ELSE Let(tokenize(key_value[1], {"."}, SizeMax), LAMBDA key_elements :
              IF Len(key_elements) = 2
              THEN create_add(result, "global", key_elements[2], key_value[2])
              ELSE IF Len(key_elements) = 3
              THEN IF key_elements[2] = <<"l", "o", "g", "g", "e", "r">>
                   THEN create_add(result, "logger", key_elements[3], key_value[2])
                   ELSE IF key_elements[2] = <<"s", "i", "n", "k">>
                   THEN create_add(result, "sink", key_elements[3], key_value[2])
                   ELSE create_failed(result, S_cannot_understand, <<line>>)
              ELSE create_failed(result, S_cannot_understand, <<line>>)))

\* configuration::create, lines 871-922: while (std::getline(in, line))
RECURSIVE create_lines(_, _)
create_lines(lines, result) ==
    IF lines = <<>> \/ result.err # "none" THEN result
    ELSE create_lines(Tail(lines), create_line(result, Head(lines)))

\* A line as it is written: a first word, dot-separated segments after it and,
\* with eq, an = and a value
StreamLines ==
    LET line(pre, segs, eq, value) ==
            [pre |-> pre, segs |-> segs, eq |-> eq, value |-> value]
        spdlog == <<"s", "p", "d", "l", "o", "g">>
    IN  {line(<<"x">>, <<S_sinks, <<"a">>>>, TRUE, S_null_sink_st),
         line(spdlog, <<<<"g">>>>, TRUE, <<"v">>),
         line(spdlog, <<<<"g">>>>, TRUE, <<"w", "=", "v">>),
         line(spdlog, <<<<"h">>>>, TRUE, <<"v">>),
         line(spdlog, <<<<"s", "i", "n", "k">>, <<"a">>>>, TRUE, S_null_sink_st),
         line(spdlog, <<<<"s", "i", "n", "k">>, <<"a">>>>, TRUE, S_stdout_sink_st),
         line(spdlog, <<<<"l", "o", "g", "g", "e", "r">>, <<"l">>>>, TRUE,
              S_INFO \o <<",", "[", "s", "i", "n", "k", "s", "=", "a", "]">>),
         line(spdlog, <<<<"a">>, <<"b">>, <<"c">>>>, TRUE, <<"v">>),
         line(spdlog, <<<<"o">>, <<"a">>>>, TRUE, <<"v">>),
         line(spdlog, <<<<"o">>, <<"a">>>>, TRUE, <<>>),
         line(spdlog, <<<<"a">>, <<"b">>, <<"c">>>>, FALSE, <<>>),
         line(spdlog, <<<<"s", "i", "n", "k">>, <<"a">>>>, FALSE, <<>>)}

RECURSIVE Streams(_)
Streams(n) ==
    IF n = 0 THEN {<<>>}
    ELSE Streams(n - 1) \cup {Append(st2, l) : st2 \in Streams(n - 1), l \in StreamLines}

RECURSIVE Dotted(_)
Dotted(segs) == IF segs = <<>> THEN <<>> ELSE <<".">> \o Head(segs) \o Dotted(Tail(segs))

StreamLineText(l) ==
    l.pre \o Dotted(l.segs) \o (IF l.eq THEN <<"=">> \o l.value ELSE <<>>)

StreamText(lines) == [i \in DOMAIN lines |-> StreamLineText(lines[i])]

InitCreate ==
    /\ ConfStart
    /\ fn_in \in Streams(MaxLines)
    /\ fn_out = NotCalled

\* configuration::create(in) on the stream of fn_in: the configuration it
\* returns is held in m_globals, m_sinks and m_loggers, the exception it throws
\* in conf_err
create ==
    /\ ~fn_out.done
    /\ fn_out' = [done |-> TRUE]
    /\ \E result \in {create_lines(StreamText(fn_in), EmptyResult)} :
          IF result.err # "none"
          THEN /\ conf_err' = [what |-> result.err, args |-> result.args]
               /\ UNCHANGED <<m_globals, m_sinks, m_loggers, directives>>
          ELSE /\ conf_err' = NoError
               /\ m_globals' = result.globals
               /\ m_sinks' = result.sinks
               /\ m_loggers' = result.loggers
               /\ directives' = result.added
    /\ UNCHANGED <<sinkVars, mtVars, sink_registry, global_func_registry,
                   error_handler_registry, conf_pc, conf_it, conf_sinks, calls, spd,
                   warmup_registry, teardown_registry, sink_messages, logged, registered,
                   fn_in>>

SpecCreate == InitCreate /\ [][create]_vars

Prefixed(l) == l.pre = <<"s", "p", "d", "l", "o", "g">>

\* The kind of directive a line is written as, from its segments
LineKind(l) ==
    CASE Len(l.segs) = 1 -> "global"
      [] Len(l.segs) = 2 /\ l.segs[1] = <<"s", "i", "n", "k">> -> "sink"
      [] Len(l.segs) = 2 /\ l.segs[1] = <<"l", "o", "g", "g", "e", "r">> -> "logger"
      [] OTHER -> "none"

WellFormedLine(l) == Prefixed(l) /\ l.eq /\ LineKind(l) # "none"

DirectiveOf(kind, value) ==
    CASE kind = "global" -> global_config(value).cfg
      [] kind = "sink" -> sink_config(value).cfg
      [] kind = "logger" -> logger_config(value).cfg

StoredMap(kind) ==
    CASE kind = "global" -> m_globals
      [] kind = "sink" -> m_sinks
      [] kind = "logger" -> m_loggers

\* C24: create ignores the lines that do not start with spdlog. and, when the
\* other lines are well formed, stores one directive for each of them: a
\* global named by the 2nd segment of a 2-segment key, a sink or logger named
\* by the 3rd segment of a 3-segment key, with the text after the first = as
\* its value.
C24_CreateStoresEachLine ==
    (fn_out.done /\ \A i \in DOMAIN fn_in : Prefixed(fn_in[i]) => WellFormedLine(fn_in[i])) =>
       /\ conf_err = NoError
       /\ \A kind \in {"global", "sink", "logger"} :
             DOMAIN StoredMap(kind) =
                {fn_in[i].segs[Len(fn_in[i].segs)] :
                    i \in {j \in DOMAIN fn_in : WellFormedLine(fn_in[j]) /\ LineKind(fn_in[j]) = kind}}
       /\ \A i \in DOMAIN fn_in :
             (/\ WellFormedLine(fn_in[i])
              /\ \A j \in DOMAIN fn_in :
                    (j > i /\ WellFormedLine(fn_in[j]) /\ LineKind(fn_in[j]) = LineKind(fn_in[i]))
                       => fn_in[j].segs # fn_in[i].segs) =>
                StoredMap(LineKind(fn_in[i]))[fn_in[i].segs[Len(fn_in[i].segs)]] =
                   DirectiveOf(LineKind(fn_in[i]), fn_in[i].value)


\* A line of the reserved prefix whose key is neither that of a global nor
\* that of a sink or logger
BadKey(l) == Prefixed(l) /\ LineKind(l) = "none"

NoConfiguration == m_globals = <<>> /\ m_sinks = <<>> /\ m_loggers = <<>>

FirstFatal ==
    CHOOSE i \in DOMAIN fn_in :
       /\ BadKey(fn_in[i]) /\ fn_in[i].eq
       /\ \A j \in DOMAIN fn_in : (BadKey(fn_in[j]) /\ fn_in[j].eq) => i <= j

----
\* The typed attribute accessors, called with every text.

AccessorTypes == {"string", "bool", "int", "size_t"}

\* The default handed to a defaulted accessor of each type
DefaultOf(T) ==
    CASE T = "string" -> Val(FALSE, FALSE, <<"d">>)
      [] T = "bool" -> Val(TRUE, FALSE, <<>>)
      [] T = "int" -> Val(FALSE, FALSE, <<"7">>)
      [] T = "size_t" -> Val(FALSE, FALSE, <<"7">>)

AttributeTexts ==
    {<<"1">>, <<"0">>, <<"1", "2">>, <<"0", "7">>, <<"a">>, <<"1", "a">>, <<>>,
     <<"t", "r", "u", "e">>, <<"T", "R", "U", "E">>, <<"Y", "e", "s">>, <<"n">>, <<"n", "O">>,
     <<"f">>, <<"m", "a", "y", "b", "e">>, <<"-", "1">>, <<" ", "1">>, <<"o", "n">>}

\* A call of an accessor for the attribute k: its type, whether it is the
\* defaulted one, and the attribute as it stands in the map
AccessorInputs ==
    {[T |-> T, defaulted |-> d, present |-> FALSE, text |-> <<>>] :
        T \in AccessorTypes, d \in BOOLEAN}
    \cup {[T |-> T, defaulted |-> d, present |-> TRUE, text |-> t] :
             T \in AccessorTypes, d \in BOOLEAN, t \in AttributeTexts}

AttributesOf(in) ==
    IF in.present THEN (<<"k">> :> in.text) @@ (<<"j">> :> <<"1">>) ELSE (<<"j">> :> <<"1">>)

InitAttr ==
    /\ ConfStart
    /\ fn_in \in AccessorInputs
    /\ fn_out = NotCalled

\* get_attribute<T>("k", attributes) or get_attribute_default<T>("k", attributes, def)
call_get_attribute ==
    /\ ~fn_out.done
    /\ \E r \in {IF fn_in.defaulted
                 THEN get_attribute_default_as(fn_in.T, <<"k">>, AttributesOf(fn_in),
                                               DefaultOf(fn_in.T))
                 ELSE get_attribute_as(fn_in.T, <<"k">>, AttributesOf(fn_in))} :
          fn_out' = [done |-> TRUE, err |-> r.err, value |-> r.value]
    /\ UNCHANGED <<sinkVars, mtVars, sink_registry, global_func_registry,
                   error_handler_registry, m_globals, m_sinks, m_loggers, directives,
                   conf_pc, conf_it, conf_sinks, calls, spd, conf_err, warmup_registry,
                   teardown_registry, sink_messages, logged, registered, fn_in>>

SpecAttr == InitAttr /\ [][call_get_attribute]_vars

\* The tokens a bool is written with, in lower case
BoolTokens ==
    {<<"1">>, <<"t", "r", "u", "e">>, <<"t">>, <<"y", "e", "s">>, <<"y">>,
     <<"0">>, <<"f", "a", "l", "s", "e">>, <<"f">>, <<"n", "o">>, <<"n">>}

ToLower(str) == [i \in DOMAIN str |-> tolower(str[i])]

\* The attribute texts the claim calls not convertible to the type: a bool
\* outside the token set, a number without any digit
NotConvertible(T, text) ==
    CASE T = "string" -> FALSE
      [] T = "bool" -> ToLower(text) \notin BoolTokens
      [] T \in {"int", "size_t"} -> \A i \in DOMAIN text : text[i] \notin Digits

\* C29: a required accessor fails when the attribute is absent; an accessor,
\* required or defaulted, fails when the attribute is present and its text is
\* not convertible to the type; a defaulted accessor returns its default when
\* the attribute is absent.
C29_AccessorsSignalFailure ==
    fn_out.done =>
       /\ (~fn_in.present /\ ~fn_in.defaulted) => fn_out.err # "none"
       /\ (~fn_in.present /\ fn_in.defaulted) =>
             fn_out.err = "none" /\ fn_out.value = DefaultOf(fn_in.T)
       /\ (fn_in.present /\ NotConvertible(fn_in.T, fn_in.text)) => fn_out.err # "none"


----
\* The sink registry used by several threads.  get_sink_registry() hands out a
\* plain static std::map and neither register_custom_sink nor make_sink takes
\* a lock, so the steps of the threads interleave freely.  mt_pc[t] is the
\* position of thread t, mt_tmp[t] its locals, mt_sent the number of calls that
\* have returned, mt_bad whether an access has met the map in the middle of a
\* mutation.

MaxRegOps == 3

\* A default-constructed std::function, as operator[] leaves it in a new node
EmptyFunction == [func |-> "empty", mutex |-> "empty"]
\* What a read that races with a write may find
TornFunction == [func |-> "torn", mutex |-> "torn"]

Mutating(t) == mt_pc[t] = "assign"

OthersMutating(t) == \E u \in Threads : u # t /\ Mutating(u)

InitRegMt ==
    /\ LibraryStart
    /\ FnIdle
    /\ mt_pc = [t \in Threads |-> "idle"]
    /\ mt_owner = 0
    /\ mt_tmp = [t \in Threads |-> [name |-> <<>>, func |-> EmptyFunction]]
    /\ mt_sent = 0
    /\ mt_ref = <<>>
    /\ mt_bad = FALSE

RegMtFrame ==
    UNCHANGED <<sinkVars, mt_owner, mt_ref, global_func_registry, error_handler_registry,
                m_globals, m_sinks, m_loggers, directives, conf_pc, conf_it, conf_sinks,
                calls, spd, conf_err, warmup_registry, teardown_registry, sink_messages,
                logged, fn_in, fn_out>>

\* register_custom_sink, line 1061, first half: get_sink_registry()[name] finds
\* the node of name or links a new node with an empty function into the tree.
\* Two unsynchronised writers of one std::map are a data race: the map may or
\* may not come out damaged.
mt_register_insert(t, name, func) ==
    /\ mt_pc[t] = "idle"
    /\ mt_sent < MaxRegOps
    /\ mt_pc' = [mt_pc EXCEPT ![t] = "assign"]
    /\ mt_tmp' = [mt_tmp EXCEPT ![t] = [name |-> name, func |-> func]]
    /\ sink_registry' = map_emplace(sink_registry, name, EmptyFunction)
    /\ IF OthersMutating(t) THEN mt_bad' \in {mt_bad, TRUE} ELSE mt_bad' = mt_bad
    /\ UNCHANGED <<mt_sent, registered>>
    /\ RegMtFrame

\* register_custom_sink, line 1061, second half: ... = func
mt_register_assign(t) ==
    /\ mt_pc[t] = "assign"
    /\ mt_pc' = [mt_pc EXCEPT ![t] = "idle"]
    /\ sink_registry' = map_assign(sink_registry, mt_tmp[t].name, mt_tmp[t].func)
    /\ registered' = [registered EXCEPT !.sink = (mt_tmp[t].name :> mt_tmp[t].func) @@ @]
    /\ mt_sent' = mt_sent + 1
    /\ UNCHANGED <<mt_tmp, mt_bad>>
    /\ RegMtFrame

\* make_sink, lines 616-618: sink_registry.find(config.type).  A read that
\* runs while another thread writes the map is a data race and may find the
\* entry as it is, none, or a half-written one.
mt_make_sink_find(t, name) ==
    /\ mt_pc[t] = "idle"
    /\ mt_sent < MaxRegOps
    /\ mt_pc' = [mt_pc EXCEPT ![t] = "call"]
    /\ \E search \in IF OthersMutating(t)
                     THEN {sink_function_of(name), [func |-> "end", mutex |-> "end"],
                           TornFunction}
                     ELSE {sink_function_of(name)} :
          mt_tmp' = [mt_tmp EXCEPT ![t] = [name |-> name, func |-> search]]
    /\ UNCHANGED <<sink_registry, mt_sent, mt_bad, registered>>
    /\ RegMtFrame

\* make_sink, lines 619-624: the throw for an unknown type or the call of
\* search->second
mt_make_sink_call(t) ==
    /\ mt_pc[t] = "call"
    /\ mt_pc' = [mt_pc EXCEPT ![t] = "idle"]
    /\ mt_bad' = (mt_bad \/ mt_tmp[t].func \in {EmptyFunction, TornFunction})
    /\ mt_sent' = mt_sent + 1
    /\ UNCHANGED <<sink_registry, mt_tmp, registered>>
    /\ RegMtFrame

NextRegMt ==
    \/ \E t \in Threads, n \in SinkNames, f \in SinkFunctions : mt_register_insert(t, n, f)
    \/ \E t \in Threads : mt_register_assign(t)
    \/ \E t \in Threads, n \in SinkNames : mt_make_sink_find(t, n)
    \/ \E t \in Threads : mt_make_sink_call(t)

SpecRegMt == InitRegMt /\ [][NextRegMt]_vars

\* C21: the accesses to a registry exclude one another: while one thread is
\* registering a type no other thread is registering or looking one up in the
\* same registry, and no access meets or leaves behind a registry in the
\* middle of a mutation.
C21_RegistryAccessesExclusive ==
    /\ \A t, u \in Threads :
          (t # u /\ Mutating(t)) => mt_pc[u] = "idle"
    /\ ~mt_bad


----
\* A sink that throws, and the error handler of the logger.

throwing_sink_function == [func |-> "throwing", mutex |-> "null_mutex"]

S_throwing_sink == <<"t", "h", "r", "o", "w", "i", "n", "g", "_", "s", "i", "n", "k">>

\* (name, config string) of the logger directives over the throwing sink t
ErrDirectives ==
    { << <<"l">>, k \o <<",", "[", "s", "i", "n", "k", "s", "=">> \o l \o <<"]">> >> :
         k \in {S_INFO, S_ERROR}, l \in {<<"t">>, <<"t", ":", "t">>} }

NextErr ==
    \/ register_error_handler(S_handler, "handler")
    \/ register_custom_sink(S_throwing_sink, throwing_sink_function)
    \/ add_global(S_set_error_handler, S_handler)
    \/ add_sink(<<"t">>, S_throwing_sink)
    \/ \E d \in ErrDirectives : add_logger(d[1], d[2])
    \/ configure
    \/ configure_global
    \/ configure_sink
    \/ configure_logger
    \/ \E lvl \in {"debug", "err"} : logger_log(<<"l">>, lvl)

SpecErr == InitConf /\ [][NextErr]_vars

\* configure() has called set_error_handler with the name of a registered
\* handler
HandlerApplied ==
    /\ \E i \in CallsOf("global") : calls[i].name = S_set_error_handler
    /\ S_set_error_handler \in DOMAIN m_globals
    /\ m_globals[S_set_error_handler].value \in DOMAIN error_handler_registry

\* The message passes the threshold of the logger and one of the logger's
\* sinks throws
SinkThrows(e) ==
    /\ should_log(spd.loggers[e.logger], e.msg.level)
    /\ \E i \in DOMAIN spd.loggers[e.logger].sinks :
          spd.loggers[e.logger].sinks[i].class = "throwing_sink"

\* C30: once configure() has applied a set_error_handler directive that names
\* a registered handler H, the exception a sink throws while a logger
\* dispatches a message is delivered to H exactly once, with the message of the
\* exception, and does not leave the log call.
C30_SinkErrorGoesToHandler ==
    \A i \in DOMAIN logged :
       (HandlerApplied /\ SinkThrows(logged[i])) =>
          /\ logged[i].handled =
                <<[handler |-> error_handler_registry[m_globals[S_set_error_handler].value],
                   what |-> "Error in 'throwing_sink': ",
                   args |-> <<logged[i].msg.payload>>]>>
          /\ ~logged[i].escaped

\* The handler is installed, the logger l holds the throwing sink twice, and
\* an error message sent through it has reached the handler once
C30_Witness ==
    /\ HandlerApplied
    /\ <<"l">> \in DOMAIN spd.loggers
    /\ Len(spd.loggers[<<"l">>].sinks) = 2
    /\ \E i \in DOMAIN logged :
          /\ logged[i].msg.level = "err"
          /\ Len(logged[i].handled) = 1
          /\ logged[i].handled[1].handler = "handler"
          /\ ~logged[i].escaped


----
\* The rotating sink: time against size, the tracked size, the renames.

\* C34: a time-based rotation happens only inside an append and goes before
\* the size-based one: an append made at or after the deadline, also when the
\* tracked size passes max_size with it, renames and removes no file; it opens
\* the generation-0 file of the recomputed base name, recomputes the deadline
\* and writes the message there.  No other step moves the base name, the
\* deadline or a file.
C34_TimeRotationOnlyReopens ==
    [][ /\ (AppendStep /\ now >= rotation_tp) =>
             LET msg == [id |-> Len(history'), len |-> last'.len]
                 f0 == <<now \div MinutesPerDay, 0>>
             IN  /\ last'.rotation = "time"
                 /\ last'.log = <<>> /\ last'.err = "none"
                 /\ base' = f0[1]
                 /\ DOMAIN disk' = DOMAIN disk \cup {f0}
                 /\ \A f \in DOMAIN disk : f # f0 => disk'[f] = disk[f]
                 /\ disk'[f0] = Append(IF f0 \in DOMAIN disk THEN disk[f0] ELSE <<>>, msg)
                 /\ rotation_tp' = next_rotation_tp(now, rotation_h, rotation_m, period)
        /\ (AppendStep /\ now < rotation_tp) => last'.rotation # "time"
        /\ (st = "open" /\ ~AppendStep) => UNCHANGED <<disk, base, rotation_tp>>
      ]_vars

\* Two messages of length 2 went to a sink of max_size 3 that never shifted
\* its generations: the second one, past max_size, rotated by time
C34_Witness ==
    /\ last.op = "append" /\ last.rotation = "time"
    /\ history = <<2, 2>> /\ max_size = 3 /\ obs.sizeRot = 0 /\ ~obs.ioErr
    /\ base = 1 /\ disk[<<1, 0>>] = <<[id |-> 2, len |-> 2]>>

\* The tracked size after the latest append, had it followed the rule
SizeRule(before) ==
    IF last.rotation # "none" THEN last.len ELSE before + last.len

\* C35: after a successful append of a message of length L, current_size is L
\* when the append rotated, by time or by size, and its former value plus L
\* when it did not; so after a successful append current_size is at most
\* max_size or the length of the message just written.
C35_TrackedSize ==
    [][ (AppendStep /\ last'.err = "none") =>
          /\ current_size' = IF last'.rotation # "none" THEN last'.len
                             ELSE current_size + last'.len
          /\ current_size' <= max_size \/ current_size' = last'.len
      ]_vars

C35_Witness ==
    /\ last.op = "append" /\ last.rotation = "size" /\ last.err = "none"
    /\ Len(history) = 3 /\ last.len = 1 /\ current_size = 1
    /\ obs.timeRot

\* The generation a file of generation g is found at after the calls of log
MovedTo(log, g) ==
    IF \E i \in DOMAIN log : log[i].op = "rename" /\ log[i].src = g
    THEN log[CHOOSE i \in DOMAIN log : log[i].op = "rename" /\ log[i].src = g].tgt
    ELSE g

\* C36: in a generation shift with max_files >= 1 every rename is made when
\* its target does not exist, whatever generation files were there before, so
\* no rename overwrites a file: every file of the shift's base name that no
\* remove of the shift took is found afterwards, with its content, at the
\* generation it was renamed to.
C36_RenameNeverOverwrites ==
    [][ (AppendStep /\ last'.rotation = "size" /\ max_files >= 1) =>
          /\ \A i \in DOMAIN last'.log : ~last'.log[i].over
          /\ \A f \in {g \in DOMAIN disk : g[1] = base} :
                \/ \E i \in DOMAIN last'.log :
                      last'.log[i].op = "remove" /\ last'.log[i].src = f[2]
                \/ /\ MovedTo(last'.log, f[2]) # 0
                   /\ <<base, MovedTo(last'.log, f[2])>> \in DOMAIN disk'
                   /\ disk'[<<base, MovedTo(last'.log, f[2])>>] = disk[f]
                \/ /\ MovedTo(last'.log, f[2]) = 0
                   /\ last'.err # "none"
                   /\ disk'[f] = disk[f]
      ]_vars

\* A shift with max_files 2 over the generations 1 and 2 of an earlier run:
\* one remove, then two renames
C36_Witness ==
    /\ last.op = "append" /\ last.rotation = "size" /\ last.err = "none"
    /\ max_files = 2 /\ obs.initGens = {1, 2}
    /\ Len(last.log) = 3
    /\ last.log[1].op = "remove" /\ last.log[2].op = "rename" /\ last.log[3].op = "rename"


\* The number of files of the sink's base name on disk
FilesPresent == Cardinality({g \in DOMAIN disk : g[1] = base})

\* The calls of file_exists a shift of the present files makes: one for each
\* entry of the list in the enumeration, one for each kept entry in the loop
\* of the renames
EnumProbes == Len(rotate_files(disk, base, max_files))
RenameProbes == rotate_keep(Len(rotate_files(disk, base, max_files)), max_files)

CallsOfOp(log, op) == Cardinality({i \in DOMAIN log : log[i].op = op})

\* C37 as stated: the existence probes, the removals and the renames of a
\* generation shift are each at most the number of generation files present
\* plus one.
C37_CallsWithinFilesPlusOne ==
    [][ (AppendStep /\ last'.rotation = "size" /\ last'.err = "none") =>
          /\ EnumProbes + RenameProbes <= FilesPresent + 1
          /\ CallsOfOp(last'.log, "remove") <= FilesPresent + 1
          /\ CallsOfOp(last'.log, "rename") <= FilesPresent + 1
      ]_vars

\* C37: a generation shift ends for every max_files, the unbounded default
\* included, after a number of calls that grows with the files present and not
\* with max_files: with n generation files present the enumeration probes at
\* most n targets, at most one file is removed, and the renames probe and move
\* at most n sources.
C37_CallsLinearInFiles ==
    [][ (AppendStep /\ last'.rotation = "size") =>
          /\ EnumProbes <= FilesPresent
          /\ RenameProbes <= FilesPresent
          /\ CallsOfOp(last'.log, "remove") <= 1
          /\ CallsOfOp(last'.log, "rename") <= FilesPresent
          /\ CallsOfOp(last'.log, "rename") <= RenameProbes
      ]_vars

\* A shift of the unbounded sink over the generations 1 and 2 of an earlier run
C37_Witness ==
    /\ last.op = "append" /\ last.rotation = "size" /\ last.err = "none"
    /\ max_files = SizeMax /\ obs.initGens = {1, 2} /\ obs.sizeRot = 1
    /\ CallsOfOp(last.log, "rename") = 3 /\ CallsOfOp(last.log, "remove") = 0
    /\ Backups(disk, base) = {1, 2, 3}

----
\* A configure() that fails at a logger directive.

\* The errors make_logger raises for a reference it cannot resolve.
S_missing_sink == "Trying to construct logger, but cannot find sink"
S_missing_handler == "cannot find error handler"

\* C39 (as stated): when configure() fails at a logger directive, for a missing
\* sink name or a missing error-handler name, no logger of that directive's
\* name is registered afterwards.
C39_FailedLoggerNotRegistered ==
    (conf_pc = "failed" /\ conf_err.what \in {S_missing_sink, S_missing_handler}) =>
        conf_err.args[1] \notin DOMAIN spd.loggers

\* C39 (amended): a logger directive that names a missing sink fails before
\* the logger is created, and no logger of its name is registered; a logger
\* directive that names a missing error handler fails after the logger was
\* created and registered, and the logger stays registered with the sinks,
\* the level and the pattern of its directive, its error handler being the
\* one every new logger gets.
C39_RegisteredBeforeHandlerLookup ==
    /\ (conf_pc = "failed" /\ conf_err.what = S_missing_sink) =>
          conf_err.args[1] \notin DOMAIN spd.loggers
    /\ (conf_pc = "failed" /\ conf_err.what = S_missing_handler) =>
          LET l == conf_err.args[1]
              names == ColonNames(m_loggers[l].attributes[S_sinks])
          IN  /\ l \in DOMAIN spd.loggers
              /\ calls[Len(calls)] = [kind |-> "logger", name |-> l, inst |-> <<>>]
              /\ spd.loggers[l].sinks = [k \in DOMAIN names |-> InstanceFor(names[k])]
              /\ spd.loggers[l].level = find_log_level(m_loggers[l].threshold)
              /\ spd.loggers[l].error_handler = spd.error_handler

\* configure() failed at logger m, whose error handler is not registered; the
\* logger m is in the registry with the sink made for a.
C39_Witness ==
    /\ conf_pc = "failed"
    /\ conf_err.what = S_missing_handler
    /\ conf_err.args[1] = <<"m">>
    /\ <<"m">> \in DOMAIN spd.loggers
    /\ Len(spd.loggers[<<"m">>].sinks) = 1
    /\ S_handler \notin DOMAIN error_handler_registry

----
\* The built-in sink types, each made once.

\* The attribute lists of the sink directives that are made
SinkAttributeLists ==
    { <<>>,
      (S_file_path :> <<"f">>),
      (S_file_path :> <<"f">>) @@ (S_max_size :> <<"5">>),
      (S_file_path :> <<"f">>) @@ (S_max_size :> <<"x">>) }

\* The sink directives that are made: a built-in type name, attributes, and
\* the number of the object a make_shared would create
SinkInputs ==
    [type : DOMAIN make_sink_registry, attributes : SinkAttributeLists, id : 1..2]

InitMakeSink ==
    /\ ConfStart
    /\ fn_in \in SinkInputs
    /\ fn_out = NotCalled

\* sink_functions::make_sink(config) called with the directive of fn_in
call_make_sink ==
    /\ ~fn_out.done
    /\ \E r \in {make_sink([type |-> fn_in.type, attributes |-> fn_in.attributes],
                            fn_in.id)} :
          fn_out' = [done |-> TRUE, called |-> r.called, err |-> r.err, inst |-> r.inst]
    /\ UNCHANGED <<sinkVars, mtVars, sink_registry, global_func_registry,
                   error_handler_registry, m_globals, m_sinks, m_loggers, directives,
                   conf_pc, conf_it, conf_sinks, calls, spd, conf_err, warmup_registry,
                   teardown_registry, sink_messages, logged, registered, fn_in>>

SpecSink == InitMakeSink /\ [][call_make_sink]_vars

\* The sink class each built-in type name names, by the name without its
\* _st or _mt.
NamedClass(type) ==
    Let(SubSeq(type, 1, Len(type) - 3), LAMBDA kind :
        CASE kind = <<"s", "t", "d", "o", "u", "t", "_", "s", "i", "n", "k">> -> "stdout_sink"
          [] kind = <<"s", "t", "d", "e", "r", "r", "_", "s", "i", "n", "k">> -> "stderr_sink"
          [] kind = <<"n", "u", "l", "l", "_", "s", "i", "n", "k">> -> "null_sink"
          [] kind = <<"s", "i", "m", "p", "l", "e", "_", "f", "i", "l", "e", "_", "s", "i", "n", "k">> ->
                "simple_file_sink"
          [] kind = SubSeq(S_daily_rotating_file_sink_st, 1, 24) ->
                "daily_rotating_file_sink<dateonly_daily_file_name_calculator>"
          [] kind = SubSeq(S_periodically_rotating_file_sink_st, 1, 31) ->
                "daily_rotating_file_sink<default_daily_file_name_calculator>"
          [] kind = SubSeq(S_stdout_color_sink_st, 1, 17) -> "ansicolor_stdout_sink"
          [] kind = SubSeq(S_stderr_color_sink_st, 1, 17) -> "ansicolor_stderr_sink")

\* The Mutex the suffix of a type name names
NamedMutex(type) ==
    IF SubSeq(type, Len(type) - 2, Len(type)) = <<"_", "s", "t">> THEN "null_mutex" ELSE "mutex"

\* C40: every built-in sink type name resolves to the factory of the sink
\* kind it names: the sink that make_sink returns for it is of the class and
\* of the Mutex the name names, so that the sink made for stderr_sink_st or
\* stderr_sink_mt is the standard-error sink and not the sink made for
\* stdout_sink_st or stdout_sink_mt.
C40_TypeNameResolvesToItsKind ==
    (fn_out.done /\ fn_out.err = "none") =>
        /\ fn_out.called
        /\ fn_out.inst.class = NamedClass(fn_in.type)
        /\ fn_out.inst.mutex = NamedMutex(fn_in.type)
        /\ fn_in.type \in {S_stderr_sink_st, S_stderr_sink_mt} =>
              /\ fn_out.inst.class = "stderr_sink"
              /\ \A t \in {S_stdout_sink_st, S_stdout_sink_mt} :
                    fn_out.inst # make_sink([type |-> t, attributes |-> fn_in.attributes],
                                            fn_in.id).inst

----
\* The sinks of one run of configure() and the loggers that share them.

\* The invocations of the factory of the sink directive of this name
FactoryCalls(n) == {i \in CallsOf("sink") : calls[i].name = n}

\* The loggers whose sink list names this sink
Referrers(n) ==
    {l \in DOMAIN m_loggers : \E k \in DOMAIN m_loggers[l].sinks : m_loggers[l].sinks[k] = n}

\* C38: in a run of configure() that succeeds, the factory of each sink
\* directive is invoked exactly once, whether no logger, one logger or several
\* loggers name the sink, and no other factory is invoked; every entry of
\* every logger's sink list that names the sink is the object that this one
\* invocation returned.
C38_OneInstancePerSinkDirective ==
    conf_pc = "done" =>
        /\ \A n \in DOMAIN m_sinks : Cardinality(FactoryCalls(n)) = 1
        /\ Cardinality(CallsOf("sink")) = Cardinality(DOMAIN m_sinks)
        /\ \A l \in DOMAIN m_loggers :
              /\ l \in DOMAIN spd.loggers
              /\ Len(spd.loggers[l].sinks) = Len(m_loggers[l].sinks)
              /\ \A k \in DOMAIN m_loggers[l].sinks :
                    /\ spd.loggers[l].sinks[k] = InstanceFor(m_loggers[l].sinks[k])
                    /\ spd.loggers[l].sinks[k] = conf_sinks[m_loggers[l].sinks[k]]

\* A run of configure() that succeeded with the null sink a, which both
\* loggers name: the factory ran once and l and m hold the one object.
C38_Witness ==
    /\ conf_pc = "done"
    /\ DOMAIN m_sinks = {<<"a">>}
    /\ m_sinks[<<"a">>].type = S_null_sink_st
    /\ Referrers(<<"a">>) = {<<"l">>, <<"m">>}
    /\ Cardinality(FactoryCalls(<<"a">>)) = 1
    /\ spd.loggers[<<"l">>].sinks = <<conf_sinks[<<"a">>]>>
    /\ spd.loggers[<<"m">>].sinks = <<conf_sinks[<<"a">>]>>

----
\* The macros that log to every registered logger.

MaxMacros == 2

\* The text the arguments of a macro invocation are formatted to
MacroText == <<"h", "i">>

\* The two forms: SPD_AUTO_{level} (streamed) and SPD_AUTO_{level}_FMT
MacroForms == {"stream", "fmt"}

\* spdlog::logger::log(lvl, msg) on the logger lg, as a function of the
\* messages the sinks hold: [rec, handled, escaped]
logger_log_result(lg, msg, rec) ==
    Let(IF should_log(lg, msg.level)
        THEN logger_sink_it(lg.sinks, msg, rec)
        ELSE [rec |-> rec, err |-> "none", args |-> <<>>], LAMBDA r :
        Let(logger_catch(lg, r), LAMBDA c :
            [rec |-> r.rec, handled |-> c.handled, escaped |-> c.escaped]))

\* The lambda of a macro that hands every logger the message, whatever its
\* threshold.
auto_log_lambda_unguarded(lg, lvl, form, built) ==
    [log |-> TRUE, built |-> built + 1]

\* macros.h, lines 21-31 and 34-40: the lambda that apply_all calls with one
\* logger.  The std::string message is a local of the lambda, empty at every
\* call, so SPD_AUTO_BUILD_STRING is evaluated at every call that passes
\* should_log; the _FMT form leaves the formatting to logger::log, which
\* formats when the logger takes the level.  built counts the strings built
\* so far in the invocation: [log, built]
auto_log_lambda(lg, lvl, form, built) ==
    IF ~should_log(lg, lvl) THEN [log |-> FALSE, built |-> built]
    ELSE IF form = "stream"
    THEN Let(<<>>, LAMBDA message :
             [log |-> TRUE, built |-> IF message = <<>> THEN built + 1 ELSE built])
    ELSE [log |-> TRUE, built |-> built + 1]

\* spdlog::apply_all(fun): fun is called with every logger of the registry,
\* in the order given; an exception that leaves fun ends the loop.
\* acc is [rec, entries, built].
RECURSIVE apply_all(_, _, _, _)
apply_all(order, msg, form, acc) ==
    IF order = <<>> THEN acc
    ELSE Let(auto_log_lambda(spd.loggers[Head(order)], msg.level, form, acc.built),
             LAMBDA v :
        IF ~v.log THEN apply_all(Tail(order), msg, form, [acc EXCEPT !.built = v.built])
        ELSE Let(logger_log_result(spd.loggers[Head(order)], msg, acc.rec), LAMBDA r :
            Let([rec |-> r.rec, built |-> v.built,
                 entries |-> Append(acc.entries,
                                    [logger |-> Head(order), msg |-> msg,
                                     handled |-> r.handled, escaped |-> r.escaped])],
                LAMBDA next :
                IF r.escaped THEN next ELSE apply_all(Tail(order), msg, form, next))))

\* The orders in which the registry (an unordered map) may hand out its loggers
RegistryOrders ==
    {o \in [1..Cardinality(DOMAIN spd.loggers) -> DOMAIN spd.loggers] :
        \A i, j \in DOMAIN o : o[i] = o[j] => i = j}

\* The number of macro invocations so far
Invocations == IF fn_out.done THEN fn_out.inv ELSE 0

\* One invocation of SPD_AUTO_LOG(level, ...) or SPD_AUTO_LOG_FMT(level, ...)
SPD_AUTO_LOG(lvl, form) ==
    /\ conf_pc \in {"done", "failed"}
    /\ Invocations < MaxMacros
    /\ \E order \in RegistryOrders :
       \E msg \in {[level |-> lvl,
                     payload |-> [inv |-> Invocations + 1, text |-> MacroText]]} :
       \E r \in {apply_all(order, msg, form,
                            [rec |-> sink_messages, entries |-> <<>>, built |-> 0])} :
          /\ logged' = logged \o r.entries
          /\ sink_messages' = r.rec
          /\ fn_in' = [level |-> lvl, form |-> form, order |-> order]
          /\ fn_out' = [done |-> TRUE, inv |-> Invocations + 1, built |-> r.built]
    /\ UNCHANGED <<sink_registry, global_func_registry, error_handler_registry, m_globals,
                   m_sinks, m_loggers, directives, conf_pc, conf_it, conf_sinks, calls, spd,
                   conf_err, warmup_registry, teardown_registry, registered>>
    /\ UNCHANGED <<sinkVars, mtVars>>

\* (name, config string) of the logger directives: <threshold>,[sinks=a]
MacroDirectives ==
    { << n, k \o <<",", "[", "s", "i", "n", "k", "s", "=", "a", "]">> >> :
         n \in {<<"l">>, <<"m">>}, k \in {S_DEBUG, S_ERROR, S_OFF} }

NextMacro ==
    \/ register_custom_sink(S_custom, custom_sink_function)
    \/ add_sink(<<"a">>, S_custom)
    \/ \E d \in MacroDirectives : add_logger(d[1], d[2])
    \/ configure
    \/ configure_sink
    \/ configure_logger
    \/ \E lvl \in {"trace", "info", "critical"}, form \in MacroForms : SPD_AUTO_LOG(lvl, form)

SpecMacro == InitConf /\ [][NextMacro]_vars

\* The threshold of the directive of logger l admits the level
Admits(l, lvl) == level_rank(lvl) >= level_rank(ExpectedLevel(m_loggers[l].threshold))

\* The calls of logger::log the latest macro invocation made on logger l
MacroCalls(l) ==
    {i \in DOMAIN logged : logged[i].logger = l /\ logged[i].msg.payload.inv = fn_out.inv}

\* The number of messages of the latest macro invocation in the sink of id
MacroReceived(id) ==
    Cardinality({i \in DOMAIN Received(id) : Received(id)[i].payload.inv = fn_out.inv})

\* C32: one invocation of an SPD_AUTO_{level} or SPD_AUTO_{level}_FMT macro
\* hands the message exactly once to every registered logger whose threshold
\* admits the level, and to no other logger; each such logger hands it to its
\* sink once, with the level and the text of the invocation; and when no
\* registered logger admits the level, no message string is built.
C32_MacroReachesAdmittingLoggers ==
    fn_out.done =>
        /\ \A l \in DOMAIN spd.loggers :
              /\ Cardinality(MacroCalls(l)) = IF Admits(l, fn_in.level) THEN 1 ELSE 0
              /\ \A i \in MacroCalls(l) :
                    logged[i].msg = [level |-> fn_in.level,
                                     payload |-> [inv |-> fn_out.inv, text |-> MacroText]]
        /\ \A i \in DOMAIN logged : logged[i].logger \in DOMAIN spd.loggers
        /\ \A n \in DOMAIN conf_sinks :
              MacroReceived(conf_sinks[n].id) =
                 Cardinality({l \in DOMAIN spd.loggers : Admits(l, fn_in.level)})
        /\ (\A l \in DOMAIN spd.loggers : ~Admits(l, fn_in.level)) => fn_out.built = 0

\* An info message was sent by a macro to the loggers l (threshold DEBUG) and
\* m (threshold ERROR): l has logged it, m has not.
C32_Witness ==
    /\ fn_out.done
    /\ fn_in.level = "info"
    /\ DOMAIN spd.loggers = {<<"l">>, <<"m">>}
    /\ m_loggers[<<"l">>].threshold = S_DEBUG
    /\ m_loggers[<<"m">>].threshold = S_ERROR
    /\ Cardinality(MacroCalls(<<"l">>)) = 1
    /\ MacroCalls(<<"m">>) = {}
    /\ fn_out.built = 1

\* C33: in one macro invocation the message string is built only once,
\* however many loggers admit the level: it is built for the first logger
\* that takes the message and reused for the others.
C33_MessageBuiltOnce ==
    fn_out.done => fn_out.built <= 1

----
\* Loggers in async mode: the worker thread and its callbacks.

\* The loggers of the run
AsyncLoggers == {<<"l">>, <<"m">>}

\* The config strings of the set_async directives: queue size 8, with and
\* without the two callbacks
AsyncConfigs ==
    { <<"8">>,
      <<"8", ",", "[">> \o S_worker_warmup_cb \o <<"=", "w", ",">>
         \o S_worker_teardown_cb \o <<"=", "x", "]">> }

\* What the worker thread of an async_log_helper does next (worker_loop):
\* it calls the warmup callback, unless that is null, then takes the entries
\* of the queue one by one, handing a message to the sinks, and at the
\* terminate entry calls the teardown callback, unless that is null, and ends.
worker_next(w, rec) ==
    IF w.pc = "start"
    THEN [w |-> [w EXCEPT !.pc = "loop",
                          !.events = IF w.worker_warmup = "nullptr" THEN @
                                     ELSE Append(@, [call |-> "warmup", f |-> w.worker_warmup])],
          rec |-> rec]
    ELSE IF Head(w.q).type = "terminate"
    THEN [w |-> [w EXCEPT !.pc = "done", !.q = Tail(@),
                          !.events = IF w.worker_teardown = "nullptr" THEN @
                                     ELSE Append(@, [call |-> "teardown",
                                                     f |-> w.worker_teardown])],
          rec |-> rec]
    ELSE [w |-> [w EXCEPT !.q = Tail(@),
                          !.events = Append(@, [call |-> "msg", f |-> Head(w.q).msg])],
          rec |-> logger_sink_it(w.sinks, Head(w.q).msg, rec).rec]

\* One step of the worker thread of the logger created under name
worker_step(name) ==
    /\ name \in DOMAIN spd.workers
    /\ \/ spd.workers[name].pc = "start"
       \/ spd.workers[name].pc = "loop" /\ spd.workers[name].q # <<>>
    /\ \E r \in {worker_next(spd.workers[name], sink_messages)} :
          /\ spd' = [spd EXCEPT !.workers[name] = r.w]
          /\ sink_messages' = r.rec
    /\ UNCHANGED <<sink_registry, global_func_registry, error_handler_registry, m_globals,
                   m_sinks, m_loggers, directives, conf_pc, conf_it, conf_sinks, calls,
                   conf_err, warmup_registry, teardown_registry, registered, logged,
                   fn_in, fn_out>>
    /\ UNCHANGED <<sinkVars, mtVars>>

\* A thread is inside the destructor of an async_log_helper, which has posted
\* the terminate entry and joins the worker thread
Joining ==
    \E n \in DOMAIN spd.workers :
       /\ spd.workers[n].pc # "done"
       /\ \E i \in DOMAIN spd.workers[n].q : spd.workers[n].q[i].type = "terminate"

\* spdlog::async_logger::log(lvl, msg) on the logger the registry holds under
\* name: a message that passes the threshold is put on the queue of the worker
async_logger_log(name, lvl) ==
    /\ conf_pc \in {"done", "failed"}
    /\ ~Joining
    /\ name \in DOMAIN spd.loggers /\ name \in DOMAIN spd.workers
    /\ Len(logged) < MaxLogs
    /\ \E msg \in {[level |-> lvl, payload |-> Len(logged) + 1]} :
          /\ logged' = Append(logged, [logger |-> name, msg |-> msg, handled |-> <<>>,
                                       escaped |-> FALSE])
          /\ spd' = IF should_log(spd.loggers[name], lvl)
                    THEN [spd EXCEPT !.workers[name].q = Append(@, [type |-> "msg", msg |-> msg])]
                    ELSE spd
    /\ UNCHANGED <<sink_registry, global_func_registry, error_handler_registry, m_globals,
                   m_sinks, m_loggers, directives, conf_pc, conf_it, conf_sinks, calls,
                   conf_err, warmup_registry, teardown_registry, registered, sink_messages,
                   fn_in, fn_out>>
    /\ UNCHANGED <<sinkVars, mtVars>>

\* spdlog::drop(name), the registry holding the last reference to the logger:
\* the logger leaves the registry and is destroyed; the destructor of its
\* async_log_helper posts the terminate entry (and then joins the worker).
drop(name) ==
    /\ conf_pc \in {"done", "failed"}
    /\ ~Joining
    /\ name \in DOMAIN spd.loggers
    /\ spd' = [spd EXCEPT
                  !.loggers = [l \in DOMAIN @ \ {name} |-> @[l]],
                  !.workers = [n \in DOMAIN @ |->
                                  IF n = name
                                  THEN [@[n] EXCEPT !.q = Append(@, [type |-> "terminate"])]
                                  ELSE @[n]]]
    /\ UNCHANGED <<sink_registry, global_func_registry, error_handler_registry, m_globals,
                   m_sinks, m_loggers, directives, conf_pc, conf_it, conf_sinks, calls,
                   conf_err, warmup_registry, teardown_registry, registered, sink_messages,
                   logged, fn_in, fn_out>>
    /\ UNCHANGED <<sinkVars, mtVars>>

\* The directives are added in one order: set_async, the sink if there is one,
\* the loggers; without the sink the loggers have no sinks.
NextAsync ==
    \/ register_worker_warmup(<<"w">>, "f1")
    \/ register_worker_teardown(<<"x">>, "f2")
    \/ \E c \in AsyncConfigs : directives = <<>> /\ add_global(S_set_async, c)
    \/ m_globals # <<>> /\ m_loggers = <<>> /\ add_sink(<<"a">>, S_null_sink_st)
    \/ \E n \in AsyncLoggers :
          /\ m_globals # <<>>
          /\ add_logger(n, IF m_sinks = <<>>
                           THEN S_INFO \o <<",", "[", "s", "i", "n", "k", "s", "=", "]">>
                           ELSE S_INFO \o <<",", "[", "s", "i", "n", "k", "s", "=", "a", "]">>)
    \/ configure
    \/ configure_global
    \/ configure_sink
    \/ configure_logger
    \/ \E n \in AsyncLoggers : async_logger_log(n, "err")
    \/ \E n \in AsyncLoggers : drop(n)
    \/ \E n \in AsyncLoggers : worker_step(n)

\* A worker thread that can take a step takes one: it is a thread of its own.
SpecAsync ==
    InitConf /\ [][NextAsync]_vars /\ \A n \in AsyncLoggers : WF_vars(worker_step(n))

\* The set_async directive names a registered warmup and a registered
\* teardown callback
CallbacksNamed ==
    /\ S_set_async \in DOMAIN m_globals
    /\ S_worker_warmup_cb \in DOMAIN m_globals[S_set_async].attributes
    /\ S_worker_teardown_cb \in DOMAIN m_globals[S_set_async].attributes
    /\ m_globals[S_set_async].attributes[S_worker_warmup_cb] \in DOMAIN warmup_registry
    /\ m_globals[S_set_async].attributes[S_worker_teardown_cb] \in DOMAIN teardown_registry

\* The callbacks the directive names
NamedWarmup == warmup_registry[m_globals[S_set_async].attributes[S_worker_warmup_cb]]
NamedTeardown == teardown_registry[m_globals[S_set_async].attributes[S_worker_teardown_cb]]

\* The positions at which the worker of the logger made a call of this kind
WorkerCalls(n, kind) ==
    {i \in DOMAIN spd.workers[n].events : spd.workers[n].events[i].call = kind}

\* The logger was created with a worker and has been dropped
Dropped(n) == n \in DOMAIN spd.workers /\ n \notin DOMAIN spd.loggers

\* What holds at every moment of a logger created under a set_async directive
\* that names registered callbacks
WorkerOrder ==
    CallbacksNamed =>
        /\ DOMAIN spd.loggers \subseteq DOMAIN spd.workers
        /\ \A n \in DOMAIN spd.workers :
              LET w == spd.workers[n]
              IN  /\ w.worker_warmup = NamedWarmup /\ w.worker_teardown = NamedTeardown
                  /\ w.pc = "start" => w.events = <<>>
                  /\ w.pc # "start" =>
                        /\ WorkerCalls(n, "warmup") = {1}
                        /\ w.events[1].f = NamedWarmup
                  /\ Cardinality(WorkerCalls(n, "teardown")) <= 1
                  /\ \A i \in WorkerCalls(n, "teardown") :
                        /\ i = Len(w.events)
                        /\ w.events[i].f = NamedTeardown
                        /\ Dropped(n)
                  /\ w.pc = "done" <=> WorkerCalls(n, "teardown") # {}

\* The worker of the dropped logger has ended with its one teardown call
TornDown(n) ==
    /\ Dropped(n)
    /\ spd.workers[n].pc = "done"
    /\ Cardinality(WorkerCalls(n, "teardown")) = 1

====
